---------------------------- MODULE Spec2Model ----------------------------
(***************************************************************************)
(* The table-driven LL(1) parser of src/src/table_parser.py: the FIRST and *)
(* FOLLOW fixed points, the construction of the parsing table and the      *)
(* stack automaton TableDrivenParser.parse.                                *)
(*                                                                         *)
(* GRAMMAR is module-level data of table_parser.py.  The variable          *)
(* `grammar' is the grammar the module is loaded with: the built-in        *)
(* GRAMMAR, or a small alternate installed in its place, with FIRST_SETS   *)
(* and FOLLOW_SETS computed from it as lines 295-296 do at load time and   *)
(* the table built from them by the constructor.                           *)
(*                                                                         *)
(* Python's "ε" is written "epsilon".  A Python list is a sequence, a set  *)
(* a set, a dict a function (first, follow) or, where the order of its     *)
(* keys is observable, a sequence of entries in insertion order (table).   *)
(***************************************************************************)
EXTENDS Integers, Sequences, FiniteSets, TLC

VARIABLES grammar, FIRST_SETS, FOLLOW_SETS,
          tokens, show_steps, table, stack, pos, errors,
          step, trace, pc, result

\* grammar_analysis.py: the function running or returned from (ga_pc), its
\* argument, and the locals of eliminate_indirect_left_recursion,
\* left_factor, compute_first_sets and compute_follow_sets, and the table
\* build_parsing_table returned.
VARIABLES ga_pc, grammar_arg, new_grammar, non_terminals, ga_i,
          changed, prime_counter, ga_first, ga_follow, ga_table

\* Parser instances side by side: the fields above are those of the
\* instance whose parse() is executing (running); the fields of the other
\* instances are kept in parked, by name.
VARIABLES running, parked

\* A call of compute_first_of_string with its arguments and what it
\* returned (string_call); the frame of compute_first_sets and
\* compute_follow_sets while table_parser.py is loaded (loading); and what
\* Parser.parse of parser.py did with the tokens the table-driven parser
\* accepted (ast).
VARIABLES string_call, loading, ast

parser_vars == <<grammar, FIRST_SETS, FOLLOW_SETS, tokens, show_steps, table,
                 stack, pos, errors, step, trace, pc, result, running, parked>>

ga_vars == <<ga_pc, grammar_arg, new_grammar, non_terminals, ga_i,
             changed, prime_counter, ga_first, ga_follow, ga_table>>

call_vars == <<string_call, loading, ast>>

vars == <<grammar, FIRST_SETS, FOLLOW_SETS, tokens, show_steps, table,
          stack, pos, errors, step, trace, pc, result, running, parked,
          ga_vars, call_vars>>

\* Parser.parse has not been called.
NotParsed == [called |-> FALSE, raised |-> "None", pos |-> 0]

\* No call of compute_first_of_string is followed, the module is loaded
\* and Parser.parse has not been called.
CallsOff ==
    /\ string_call = [module |-> "off"]
    /\ loading = [fn |-> "off"]
    /\ ast = NotParsed

(***************************************************************************)
(* Bounds of the model.                                                    *)
(***************************************************************************)
\* Longest token stream (not counting EOF) built around the sentences of
\* the grammar.
MaxLen == 20

\* Every token stream of at most this many tokens (not counting EOF) is an
\* input, whatever the grammar.
ShortLen == 2

\* No run over the streams above needs this many steps; the guard keeps the
\* step counter finite when an operation is replaced by a faulty one.
MaxSteps == 5 * (MaxLen + 3)

(***************************************************************************)
(* Lexer vocabulary (src/src/lexer.py).                                    *)
(***************************************************************************)
TokenType == {"IF", "THEN", "ELSE", "IS", "GTE",
              "IDENTIFIER", "NUMBER", "LETTER", "EOF"}

\* The literal text the lexer stores in a token of each type; EOF is built
\* as Token(TokenType.EOF), whose value is "".
Lexeme(type) ==
    CASE type = "IF"         -> "if"
      [] type = "THEN"       -> "then"
      [] type = "ELSE"       -> "else"
      [] type = "IS"         -> "is"
      [] type = "GTE"        -> ">="
      [] type = "IDENTIFIER" -> "score"
      [] type = "NUMBER"     -> "90"
      [] type = "LETTER"     -> "A"
      [] type = "EOF"        -> ""

Token(type) == [type |-> type, value |-> Lexeme(type)]

\* Lexer.KEYWORDS (lexer.py, lines 58-63).
KEYWORDS == [word \in {"if", "then", "else", "is"} |->
                CASE word = "if"   -> "IF"
                  [] word = "then" -> "THEN"
                  [] word = "else" -> "ELSE"
                  [] word = "is"   -> "IS"]

\* The words of the sources below that are all digits (str.isdigit: the
\* superscript two is a digit), and those that are one upper-case letter.
Numbers == {"90", "²"}

UpperLetters == {"A"}

\* Lines 113-135 for one word of the source: what tokenize appends for it.
LexWord(word) ==
    IF word = ">=" THEN [type |-> "GTE", value |-> ">="]
    ELSE IF word \in DOMAIN KEYWORDS THEN [type |-> KEYWORDS[word], value |-> word]
    ELSE IF word \in UpperLetters THEN [type |-> "LETTER", value |-> word]
    ELSE IF word \in Numbers THEN [type |-> "NUMBER", value |-> word]
    ELSE [type |-> "IDENTIFIER", value |-> word]

\* Lexer(source).tokenize(), the source given as its words: the token of
\* each word, then EOF.
tokenize(source) ==
    [i \in 1..Len(source) + 1 |->
        IF i <= Len(source) THEN LexWord(source[i]) ELSE Token("EOF")]

\* if score >= 90 then pass, if score >= 90 pass and
\* if score >= 90 then grade is A.
ScenarioSources ==
    { <<"if", "score", ">=", "90", "then", "pass">>,
      <<"if", "score", ">=", "90", "pass">>,
      <<"if", "score", ">=", "90", "then", "grade", "is", "A">> }

(***************************************************************************)
(* Grammar definition (table_parser.py, lines 18-76).                      *)
(***************************************************************************)
EPSILON == "epsilon"

TOKEN_TO_TERMINAL ==
    [type \in TokenType |->
        CASE type = "IF"         -> "if"
          [] type = "THEN"       -> "then"
          [] type = "ELSE"       -> "else"
          [] type = "IS"         -> "is"
          [] type = "GTE"        -> ">="
          [] type = "IDENTIFIER" -> "IDENTIFIER"
          [] type = "NUMBER"     -> "NUMBER"
          [] type = "LETTER"     -> "LETTER"
          [] type = "EOF"        -> "$"]

TERMINALS == {"if", "then", "else", "is", ">=",
              "IDENTIFIER", "NUMBER", "LETTER", "$", EPSILON}

Rule(n, body) == [rule_num |-> n, prod |-> body]

NT(name, prods) == [nt |-> name, productions |-> prods]

GRAMMAR == <<
    NT("Program",        << Rule(1, <<"StatementList">>) >>),
    NT("StatementList",  << Rule(2, <<"Statement", "StatementList'">>) >>),
    NT("StatementList'", << Rule(3, <<"Statement", "StatementList'">>),
                            Rule(4, <<EPSILON>>) >>),
    NT("Statement",      << Rule(5, <<"IfStatement", "OptionalElse">>) >>),
    NT("IfStatement",    << Rule(6, <<"if", "Condition", "then", "Assignment">>) >>),
    NT("OptionalElse",   << Rule(7, <<"else", "Assignment">>),
                            Rule(8, <<EPSILON>>) >>),
    NT("Condition",      << Rule(9, <<"IDENTIFIER", ">=", "NUMBER">>) >>),
    NT("Assignment",     << Rule(10, <<"IDENTIFIER", "is", "Value">>) >>),
    NT("Value",          << Rule(11, <<"LETTER">>) >>) >>

\* Alternates for GRAMMAR.  ConflictGrammar is not LL(1): rules 1 and 2 are
\* both licensed at (Program, if).  DanglingGrammar uses a symbol that is
\* neither in TERMINALS nor a key of the grammar.
ConflictGrammar == <<
    NT("Program", << Rule(1, <<"if">>),
                     Rule(2, <<"if", "then">>) >>) >>

DanglingGrammar == <<
    NT("Program", << Rule(1, <<"if", "Body">>) >>) >>

Grammars == {GRAMMAR, ConflictGrammar, DanglingGrammar}

\* GRAMMAR.items() with the inner loop over the productions: every
\* (nt, rule_num, prod) in iteration order.
RECURSIVE ItemsFrom(_, _)
ItemsFrom(g, i) ==
    IF i > Len(g) THEN <<>>
    ELSE [j \in 1..Len(g[i].productions) |->
            [nt       |-> g[i].nt,
             rule_num |-> g[i].productions[j].rule_num,
             prod     |-> g[i].productions[j].prod]]
         \o ItemsFrom(g, i + 1)

Items(g) == ItemsFrom(g, 1)

Keys(g) == {g[i].nt : i \in DOMAIN g}

is_terminal(symbol) == symbol \in TERMINALS

is_non_terminal(g, symbol) == symbol \in Keys(g)

\* dict.get(key, set())
Get(d, key) == IF key \in DOMAIN d THEN d[key] ELSE {}

(***************************************************************************)
(* FIRST and FOLLOW sets (table_parser.py, lines 83-224).  The sets are    *)
(* updated in place while a pass runs over the productions, as in the      *)
(* code; a pass that changes nothing ends the loop.                        *)
(***************************************************************************)
\* The `for symbol in prod' loop of compute_first_sets from position i on,
\* with the `if all_have_epsilon' that follows it.
RECURSIVE FirstScan(_, _, _, _)
FirstScan(first, nt, prod, i) ==
    IF i > Len(prod)
    THEN [first EXCEPT ![nt] = @ \cup {EPSILON}]
    ELSE LET symbol == prod[i] IN
         IF is_terminal(symbol)
         THEN [first EXCEPT ![nt] = @ \cup {symbol}]
         ELSE LET to_add == Get(first, symbol) \ {EPSILON}
                  added  == [first EXCEPT ![nt] = @ \cup to_add]
              IN  IF EPSILON \notin Get(added, symbol)
                  THEN added
                  ELSE FirstScan(added, nt, prod, i + 1)

FirstProduction_assign(first, nt, prod) ==
    IF prod = <<EPSILON>>
    THEN [first EXCEPT ![nt] = {EPSILON}]
    ELSE FirstScan(first, nt, prod, 1)

\* The body of the loop over productions, for one production.
FirstProduction(first, nt, prod) ==
    IF prod = <<EPSILON>>
    THEN [first EXCEPT ![nt] = @ \cup {EPSILON}]
    ELSE FirstScan(first, nt, prod, 1)

\* One pass of the while loop: productions k.. of items, in order.
RECURSIVE FirstPass(_, _, _)
FirstPass(first, items, k) ==
    IF k > Len(items) THEN first
    ELSE FirstPass(FirstProduction(first, items[k].nt, items[k].prod),
                   items, k + 1)

\* `while changed': a set only ever grows, so changed is set exactly when
\* the pass returns something else than it was given.
RECURSIVE FirstLoop(_, _)
FirstLoop(g, first) ==
    LET next == FirstPass(first, Items(g), 1)
    IN  IF next = first THEN first ELSE FirstLoop(g, next)

compute_first_sets(g) ==
    FirstLoop(g, [s \in Keys(g) \cup TERMINALS |->
                     IF s \in TERMINALS THEN {s} ELSE {}])

RECURSIVE FirstOfStringScan(_, _, _, _)
FirstOfStringScan(symbols, first, i, acc) ==
    IF i > Len(symbols)
    THEN acc \cup {EPSILON}
    ELSE LET symbol == symbols[i] IN
         IF is_terminal(symbol)
         THEN acc \cup {symbol}
         ELSE LET more == acc \cup (Get(first, symbol) \ {EPSILON})
              IN  IF EPSILON \notin Get(first, symbol)
                  THEN more
                  ELSE FirstOfStringScan(symbols, first, i + 1, more)

compute_first_of_string_no_epsilon(symbols, first) ==
    FirstOfStringScan(symbols, first, 1, {}) \ {EPSILON}

compute_first_of_string(symbols, first) ==
    FirstOfStringScan(symbols, first, 1, {})

\* The `for i, symbol in enumerate(prod)' loop of compute_follow_sets from
\* position i on.
RECURSIVE FollowScan(_, _, _, _, _, _)
FollowScan(g, follow, first, nt, prod, i) ==
    IF i > Len(prod) THEN follow
    ELSE LET symbol == prod[i] IN
         IF ~ is_non_terminal(g, symbol)
         THEN FollowScan(g, follow, first, nt, prod, i + 1)
         ELSE LET beta == SubSeq(prod, i + 1, Len(prod))
                  first_beta == compute_first_of_string(beta, first)
                  rule2 == [follow EXCEPT ![symbol] = @ \cup (first_beta \ {EPSILON})]
                  rule3(f) == [f EXCEPT ![symbol] = @ \cup f[nt]]
                  after ==
                      IF beta # <<>>
                      THEN IF EPSILON \in first_beta THEN rule3(rule2) ELSE rule2
                      ELSE rule3(follow)
              IN  FollowScan(g, after, first, nt, prod, i + 1)

\* The body of the loop over the productions with FIRST of the production
\* added to FOLLOW of its left side.
FollowProduction_first_of_body(g, follow, first, nt, prod) ==
    IF prod = <<EPSILON>> THEN follow
    ELSE LET after == FollowScan(g, follow, first, nt, prod, 1)
         IN  [after EXCEPT
                 ![nt] = @ \cup (compute_first_of_string(prod, first) \ {EPSILON})]

FollowProduction(g, follow, first, nt, prod) ==
    IF prod = <<EPSILON>> THEN follow
    ELSE FollowScan(g, follow, first, nt, prod, 1)

RECURSIVE FollowPass(_, _, _, _, _)
FollowPass(g, follow, first, items, k) ==
    IF k > Len(items) THEN follow
    ELSE FollowPass(g, FollowProduction(g, follow, first, items[k].nt, items[k].prod),
                    first, items, k + 1)

RECURSIVE FollowLoop(_, _, _)
FollowLoop(g, follow, first) ==
    LET next == FollowPass(g, follow, first, Items(g), 1)
    IN  IF next = follow THEN follow ELSE FollowLoop(g, next, first)

compute_follow_sets(g, first) ==
    FollowLoop(g, [s \in Keys(g) |-> IF s = "Program" THEN {"$"} ELSE {}],
               first)


(***************************************************************************)
(* The parsing table (table_parser.py, lines 303-337).  The dict is kept   *)
(* as the sequence of its entries in insertion order, which is the order   *)
(* table.keys() yields.  `for terminal in <set>' visits a Python set of    *)
(* strings in an order that differs from one interpreter run to the next   *)
(* (string hashing is seeded per process): every order is possible.        *)
(***************************************************************************)
RECURSIVE Orders(_)
Orders(S) ==
    IF S = {} THEN {<<>>}
    ELSE UNION {{<<x>> \o rest : rest \in Orders(S \ {x})} : x \in S}

TableEntry(nt, terminal, rule_num, prod, reason) ==
    [nt |-> nt, terminal |-> terminal, rule_num |-> rule_num,
     prod |-> prod, reason |-> reason]

\* FIRST(alpha) as lines 323-326 compute it for one production.
first_alpha(prod, first) ==
    IF prod = <<EPSILON>> THEN {EPSILON}
    ELSE compute_first_of_string(prod, first)

\* The loop body without its rule 2 (lines 332-335 left out).
ProductionWrites_no_follow(item, first, follow) ==
    { [i \in DOMAIN a |->
         TableEntry(item.nt, a[i], item.rule_num, item.prod, "FIRST")]
      : a \in Orders(first_alpha(item.prod, first) \ {EPSILON}) }

\* The loop body with rule 2 run for every production (the test of line
\* 333 left out).
ProductionWrites_always_follow(item, first, follow) ==
    { [i \in DOMAIN a |->
         TableEntry(item.nt, a[i], item.rule_num, item.prod, "FIRST")]
      \o
      [i \in DOMAIN b |->
         TableEntry(item.nt, b[i], item.rule_num, item.prod, "FOLLOW")]
      : a \in Orders(first_alpha(item.prod, first) \ {EPSILON}),
        b \in Orders(Get(follow, item.nt)) }

\* The assignments table[(nt, terminal)] = ... that the body of the loop
\* performs for one production, in each order the two set iterations allow.
ProductionWrites(item, first, follow) ==
    LET fa == first_alpha(item.prod, first)
        byFirst  == Orders(fa \ {EPSILON})
        byFollow == IF EPSILON \in fa
                    THEN Orders(Get(follow, item.nt))
                    ELSE {<<>>}
    IN  { [i \in DOMAIN a |->
             TableEntry(item.nt, a[i], item.rule_num, item.prod, "FIRST")]
          \o
          [i \in DOMAIN b |->
             TableEntry(item.nt, b[i], item.rule_num, item.prod, "FOLLOW")]
          : a \in byFirst, b \in byFollow }

\* The assignments of the whole double loop, productions k.. of items.
RECURSIVE TableWrites(_, _, _, _)
TableWrites(items, first, follow, k) ==
    IF k > Len(items) THEN {<<>>}
    ELSE { w \o rest : w \in ProductionWrites(items[k], first, follow),
                       rest \in TableWrites(items, first, follow, k + 1) }

\* table[(nt, terminal)] = (rule_num, prod, reason): an existing key keeps
\* its place and gets the new value, a new key goes last.
Store(t, e) ==
    IF \E i \in DOMAIN t : t[i].nt = e.nt /\ t[i].terminal = e.terminal
    THEN [i \in DOMAIN t |->
            IF t[i].nt = e.nt /\ t[i].terminal = e.terminal THEN e ELSE t[i]]
    ELSE Append(t, e)

RECURSIVE StoreAll(_, _, _)
StoreAll(t, writes, i) ==
    IF i > Len(writes) THEN t
    ELSE StoreAll(Store(t, writes[i]), writes, i + 1)

\* The tables build_parsing_table() can return when GRAMMAR, FIRST_SETS and
\* FOLLOW_SETS are g, first and follow.
build_parsing_table(g, first, follow) ==
    { StoreAll(<<>>, writes, 1) : writes \in TableWrites(Items(g), first, follow, 1) }

\* self.table.get((nt, terminal)): the entries under that key (none or one).
TableGet(t, nt, terminal) ==
    { t[i] : i \in { j \in DOMAIN t : t[j].nt = nt /\ t[j].terminal = terminal } }

(***************************************************************************)
(* Input token streams: what Lexer.tokenize returns, tokens other than EOF *)
(* followed by one EOF.                                                    *)
(***************************************************************************)
InputTypes == TokenType \ {"EOF"}

TypeOf(terminal) == CHOOSE type \in TokenType : TOKEN_TO_TERMINAL[type] = terminal

Min(a, b) == IF a < b THEN a ELSE b

PrefixesOf(w) == { SubSeq(w, 1, n) : n \in 0..Len(w) }

\* Index of the first symbol of form that is not an input terminal.
RECURSIVE FirstOther(_, _)
FirstOther(form, i) ==
    IF i > Len(form) THEN i
    ELSE IF form[i] \in TERMINALS \ {"$", EPSILON} THEN FirstOther(form, i + 1)
    ELSE i

Body(prod) == IF prod = <<EPSILON>> THEN <<>> ELSE prod

ProductionsOf(g, nt) ==
    UNION { { g[i].productions[j] : j \in DOMAIN g[i].productions }
            : i \in { n \in DOMAIN g : g[n].nt = nt } }

\* The terminal strings of at most MaxLen symbols that begin a leftmost
\* sentential form derived from form.
RECURSIVE Leading(_, _)
Leading(g, form) ==
    LET k    == FirstOther(form, 1)
        lead == SubSeq(form, 1, Min(k - 1, MaxLen))
    IN  IF k > Len(form) \/ k - 1 >= MaxLen \/ form[k] \notin Keys(g)
        THEN PrefixesOf(lead)
        ELSE PrefixesOf(lead) \cup
             UNION { Leading(g, SubSeq(form, 1, k - 1) \o Body(p.prod)
                                \o SubSeq(form, k + 1, Len(form)))
                     : p \in ProductionsOf(g, form[k]) }

ShortStreams == UNION { [1..n -> InputTypes] : n \in 0..ShortLen }

\* Token types of: a beginning of a sentence, alone or followed by any one
\* further token.
NearStreams(g) ==
    LET begin == { [i \in DOMAIN w |-> TypeOf(w[i])]
                   : w \in Leading(g, <<"Program">>) }
    IN  begin \cup { Append(w, type) : w \in begin, type \in InputTypes }

Streams(g) ==
    { [i \in 1..Len(w) + 1 |->
         IF i <= Len(w) THEN Token(w[i]) ELSE Token("EOF")]
      : w \in ShortStreams \cup NearStreams(g) }
    \cup { tokenize(source) : source \in ScenarioSources }

(***************************************************************************)
(* TableDrivenParser (table_parser.py, lines 410-528).                     *)
(***************************************************************************)
Reverse(s) == [i \in 1..Len(s) |-> s[Len(s) + 1 - i]]

\* What loading the module with grammar g computes (lines 295-296), the
\* tables the constructor can then build (line 421), the assignments to
\* table cells it can make while building them, in order (lines 330 and
\* 335), and the token streams it is given.
Loaded ==
    [g \in Grammars |->
        LET first  == compute_first_sets(g)
            follow == compute_follow_sets(g, first)
        IN  [FIRST_SETS  |-> first,
             FOLLOW_SETS |-> follow,
             tables      |-> build_parsing_table(g, first, follow),
             writes      |-> TableWrites(Items(g), first, follow, 1),
             streams     |-> Streams(g)]]

\* grammar_analysis.py is a module of its own: the parser does not run it.
AnalysisOff ==
    /\ ga_pc = "off"
    /\ grammar_arg = <<>>
    /\ new_grammar = <<>>
    /\ non_terminals = <<>>
    /\ ga_i = 0
    /\ changed = FALSE
    /\ prime_counter = <<>>
    /\ ga_first = <<>>
    /\ ga_follow = <<>>
    /\ ga_table = <<>>

\* __init__, for each grammar, token stream and show_steps it can be given.
Init ==
    /\ AnalysisOff
    /\ CallsOff
    /\ grammar \in Grammars
    /\ FIRST_SETS = Loaded[grammar].FIRST_SETS
    /\ FOLLOW_SETS = Loaded[grammar].FOLLOW_SETS
    /\ tokens \in Loaded[grammar].streams
    /\ show_steps \in BOOLEAN
    /\ pos = 0
    /\ table \in Loaded[grammar].tables
    /\ stack = <<"$", "Program">>
    /\ errors = <<>>
    /\ step = 0
    /\ trace = <<>>
    /\ pc = "parse"
    /\ result = "None"
    /\ running = "main"
    /\ parked = <<>>

current_token ==
    IF pos < Len(tokens) THEN tokens[pos + 1] ELSE Token("EOF")

token_to_terminal(token) == TOKEN_TO_TERMINAL[token.type]

top == stack[Len(stack)]

current == current_token

terminal == token_to_terminal(current)

\* stack_str and input_str of lines 456-460, taken before the step acts.
remaining_tokens ==
    [i \in 1..(IF pos < Len(tokens) THEN Len(tokens) - pos ELSE 0) |->
        token_to_terminal(tokens[pos + i])]

TraceRow(action) ==
    [step   |-> step + 1,
     stack  |-> Reverse(stack),
     input  |-> SubSeq(remaining_tokens, 1, Min(5, Len(remaining_tokens))),
     more   |-> Len(remaining_tokens) > 5,
     action |-> action]

\* if self.show_steps: print(...)
Show(action) == IF show_steps THEN Append(trace, TraceRow(action)) ELSE trace

Pop(s) == SubSeq(s, 1, Len(s) - 1)

\* Lines 503-506: pop the non-terminal and push the production in reverse.
Replace_forward(s, production) ==
    IF production # <<EPSILON>>
    THEN Pop(s) \o production
    ELSE Pop(s)

Replace_push_epsilon(s, production) ==
    Pop(s) \o Reverse(production)

Replace(s, production) ==
    IF production # <<EPSILON>>
    THEN Pop(s) \o Reverse(production)
    ELSE Pop(s)

\* Line 509 without its `if nt == top'.
Expected_any_row(t, A) == [i \in DOMAIN t |-> t[i].terminal]

\* Line 509: [t for (nt, t) in self.table.keys() if nt == top].
Expected(t, A) ==
    LET keys == SelectSeq(t, LAMBDA e : e.nt = A)
    IN  [i \in DOMAIN keys |-> keys[i].terminal]

Running == pc = "parse" /\ stack # <<>> /\ step < MaxSteps

Fixed == UNCHANGED <<grammar, FIRST_SETS, FOLLOW_SETS, tokens, show_steps, table,
                     running, parked, ga_vars, call_vars>>

Return(value) == pc' = "done" /\ result' = value

\* Lines 462-467 with the test of line 464 left out.
Accept_any_input ==
    /\ Running
    /\ top = "$"
    /\ step' = step + 1
    /\ trace' = Show([kind |-> "accept"])
    /\ Return("True")
    /\ UNCHANGED <<stack, pos, errors>>
    /\ Fixed

\* Lines 462-467: $ on top and $ as input.
Accept ==
    /\ Running
    /\ top = "$"
    /\ terminal = "$"
    /\ step' = step + 1
    /\ trace' = Show([kind |-> "accept"])
    /\ Return("True")
    /\ UNCHANGED <<stack, pos, errors>>
    /\ Fixed

\* Lines 468-473: $ on top and input left.
TrailingInput ==
    /\ Running
    /\ top = "$"
    /\ terminal # "$"
    /\ LET error_msg == [kind |-> "TrailingInput", found |-> current.value]
       IN  /\ errors' = Append(errors, error_msg)
           /\ trace' = Show([kind |-> "error", msg |-> error_msg])
    /\ step' = step + 1
    /\ Return("False")
    /\ UNCHANGED <<stack, pos>>
    /\ Fixed

\* Lines 475-482 with `self.pos += 1' left out.
Match_no_advance ==
    /\ Running
    /\ top # "$"
    /\ is_terminal(top)
    /\ top = terminal
    /\ stack' = Pop(stack)
    /\ pos' = pos
    /\ step' = step + 1
    /\ trace' = Show([kind |-> "match", symbol |-> top])
    /\ UNCHANGED <<errors, pc, result>>
    /\ Fixed

\* Lines 475-482: the terminal on top is the input terminal.
Match_drop_two ==
    /\ Running
    /\ top # "$"
    /\ is_terminal(top)
    /\ top = terminal
    /\ stack' = Pop(Pop(stack))
    /\ pos' = pos + 1
    /\ step' = step + 1
    /\ trace' = Show([kind |-> "match", symbol |-> top])
    /\ UNCHANGED <<errors, pc, result>>
    /\ Fixed

Match ==
    /\ Running
    /\ top # "$"
    /\ is_terminal(top)
    /\ top = terminal
    /\ stack' = Pop(stack)
    /\ pos' = pos + 1
    /\ step' = step + 1
    /\ trace' = Show([kind |-> "match", symbol |-> top])
    /\ UNCHANGED <<errors, pc, result>>
    /\ Fixed

\* Lines 483-488 recording the error, then skipping the expected terminal
\* and going on instead of returning.
UnexpectedToken_resync ==
    /\ Running
    /\ top # "$"
    /\ is_terminal(top)
    /\ top # terminal
    /\ LET error_msg == [kind |-> "UnexpectedToken", expected |-> top,
                         found |-> current.value]
       IN  /\ errors' = Append(errors, error_msg)
           /\ trace' = Show([kind |-> "error", msg |-> error_msg])
    /\ step' = step + 1
    /\ stack' = Pop(stack)
    /\ UNCHANGED <<pos, pc, result>>
    /\ Fixed

\* Lines 483-488 with the terminal of the token found in the message
\* instead of its text.
UnexpectedToken_terminal ==
    /\ Running
    /\ top # "$"
    /\ is_terminal(top)
    /\ top # terminal
    /\ LET error_msg == [kind |-> "UnexpectedToken", expected |-> top,
                         found |-> terminal]
       IN  /\ errors' = Append(errors, error_msg)
           /\ trace' = Show([kind |-> "error", msg |-> error_msg])
    /\ step' = step + 1
    /\ Return("False")
    /\ UNCHANGED <<stack, pos>>
    /\ Fixed

\* Lines 483-488: the terminal on top is not the input terminal.
UnexpectedToken ==
    /\ Running
    /\ top # "$"
    /\ is_terminal(top)
    /\ top # terminal
    /\ LET error_msg == [kind |-> "UnexpectedToken", expected |-> top,
                         found |-> current.value]
       IN  /\ errors' = Append(errors, error_msg)
           /\ trace' = Show([kind |-> "error", msg |-> error_msg])
    /\ step' = step + 1
    /\ Return("False")
    /\ UNCHANGED <<stack, pos>>
    /\ Fixed

\* Lines 490-506 with the table entry removed once it was applied.
Apply_consuming ==
    /\ Running
    /\ top # "$"
    /\ ~ is_terminal(top)
    /\ is_non_terminal(grammar, top)
    /\ TableGet(table, top, terminal) # {}
    /\ LET entry == CHOOSE e \in TableGet(table, top, terminal) : TRUE
           production == entry.prod
       IN  /\ trace' = Show([kind |-> "apply", rule_num |-> entry.rule_num,
                             nt |-> top, prod |-> production])
           /\ stack' = Replace(stack, production)
           /\ table' = SelectSeq(table, LAMBDA e : e # entry)
    /\ step' = step + 1
    /\ UNCHANGED <<pos, errors, pc, result>>
    /\ UNCHANGED <<grammar, FIRST_SETS, FOLLOW_SETS, tokens, show_steps,
                   running, parked, ga_vars, call_vars>>

\* Lines 490-506: a non-terminal on top with a table entry.
Apply ==
    /\ Running
    /\ top # "$"
    /\ ~ is_terminal(top)
    /\ is_non_terminal(grammar, top)
    /\ TableGet(table, top, terminal) # {}
    /\ LET entry == CHOOSE e \in TableGet(table, top, terminal) : TRUE
           production == entry.prod
       IN  /\ trace' = Show([kind |-> "apply", rule_num |-> entry.rule_num,
                             nt |-> top, prod |-> production])
           /\ stack' = Replace(stack, production)
    /\ step' = step + 1
    /\ UNCHANGED <<pos, errors, pc, result>>
    /\ Fixed

\* Lines 507-516: a non-terminal on top and no table entry.
NoRuleFound ==
    /\ Running
    /\ top # "$"
    /\ ~ is_terminal(top)
    /\ is_non_terminal(grammar, top)
    /\ TableGet(table, top, terminal) = {}
    /\ LET error_msg == [kind |-> "NoRuleFound", found |-> current.value,
                         expected |-> Expected(table, top)]
       IN  /\ errors' = Append(errors, error_msg)
           /\ trace' = Show([kind |-> "error"])
    /\ step' = step + 1
    /\ Return("False")
    /\ UNCHANGED <<stack, pos>>
    /\ Fixed

\* Lines 518-522: the symbol on top is neither in TERMINALS nor a key of the
\* grammar; nothing is printed.  Line 524: the loop is left with an empty
\* stack and parse returns False with no error recorded.
UnknownSymbol ==
    /\ pc = "parse"
    /\ step < MaxSteps
    /\ IF stack = <<>> THEN TRUE
       ELSE top # "$" /\ ~ is_terminal(top) /\ ~ is_non_terminal(grammar, top)
    /\ errors' = IF stack = <<>> THEN errors
                 ELSE Append(errors, [kind |-> "UnknownSymbol", symbol |-> top])
    /\ step' = IF stack = <<>> THEN step ELSE step + 1
    /\ Return("False")
    /\ UNCHANGED <<stack, pos, trace>>
    /\ Fixed

Next ==
    \/ Accept
    \/ TrailingInput
    \/ Match
    \/ UnexpectedToken
    \/ Apply
    \/ NoRuleFound
    \/ UnknownSymbol

Spec == Init /\ [][Next]_vars

\* parse() is a sequential loop: while a step can be taken, one is taken.
FairSpec == Spec /\ WF_vars(Next)


(***************************************************************************)
(* The language of a grammar, by leftmost derivation from its productions  *)
(* (neither the table nor the parser is used).                             *)
(***************************************************************************)
\* form derives exactly the terminal string w.
RECURSIVE Derives(_, _, _)
Derives(g, form, w) ==
    IF form = <<>> THEN w = <<>>
    ELSE IF Head(form) \in Keys(g)
    THEN \E p \in ProductionsOf(g, Head(form)) :
            Derives(g, Body(p.prod) \o Tail(form), w)
    ELSE /\ w # <<>>
         /\ Head(w) = Head(form)
         /\ Derives(g, Tail(form), Tail(w))

IfPart == <<"if", "IDENTIFIER", ">=", "NUMBER", "then", "IDENTIFIER", "is", "LETTER">>

ElsePart == <<"else", "IDENTIFIER", "is", "LETTER">>

StartsWith(w, part) == Len(w) >= Len(part) /\ SubSeq(w, 1, Len(part)) = part

Drop(w, n) == SubSeq(w, n + 1, Len(w))

\* w is zero or more statements, each an IfPart with an optional ElsePart.
RECURSIVE Statements(_)
Statements(w) ==
    \/ w = <<>>
    \/ /\ StartsWith(w, IfPart)
       /\ \/ Statements(Drop(w, Len(IfPart)))
          \/ /\ StartsWith(Drop(w, Len(IfPart)), ElsePart)
             /\ Statements(Drop(w, Len(IfPart) + Len(ElsePart)))

\* The terminal sequence of the whole token stream.
StreamTerminals == [i \in DOMAIN tokens |-> token_to_terminal(tokens[i])]

\* The stream is a sentence of g followed by $.
Derivable(g) ==
    /\ StreamTerminals # <<>>
    /\ StreamTerminals[Len(StreamTerminals)] = "$"
    /\ Derives(g, <<"Program">>, Pop(StreamTerminals))

OneOrMoreStatements ==
    /\ Len(StreamTerminals) > 1
    /\ StreamTerminals[Len(StreamTerminals)] = "$"
    /\ Statements(Pop(StreamTerminals))

(***************************************************************************)
(* C1.  For the built-in GRAMMAR, parse returns True exactly when the      *)
(* terminal sequence of the stream is derivable from Program and followed  *)
(* by $, that is when it is one or more statements                         *)
(* `if IDENTIFIER >= NUMBER then IDENTIFIER is LETTER', each optionally    *)
(* followed by `else IDENTIFIER is LETTER', and then $; every other stream *)
(* (the empty program too) is rejected.                                    *)
(***************************************************************************)
C1_AcceptsExactlyTheLanguage ==
    (grammar = GRAMMAR /\ pc = "done") =>
        /\ result \in {"True", "False"}
        /\ (result = "True") <=> Derivable(GRAMMAR)
        /\ (result = "True") <=> OneOrMoreStatements

\* A program of two statements, the first with an else part, was accepted.
C1_Witness ==
    /\ grammar = GRAMMAR
    /\ pc = "done"
    /\ result = "True"
    /\ StartsWith(StreamTerminals, IfPart \o ElsePart \o <<"if">>)

\* The empty program (EOF alone) was rejected.
C1_WitnessEmpty ==
    grammar = GRAMMAR /\ pc = "done" /\ result = "False" /\ Len(tokens) = 1


(***************************************************************************)
(* C2.  With $ on top of the stack a step accepts if and only if the       *)
(* current input terminal is $ too; any other current terminal ends the    *)
(* run with a TrailingInput error.  parse returns True in no other         *)
(* situation.                                                              *)
(***************************************************************************)
C2_Step ==
    /\ (pc = "parse" /\ stack # <<>> /\ top = "$" /\ terminal = "$") =>
          /\ pc' = "done"
          /\ result' = "True"
          /\ errors' = errors
    /\ (pc = "parse" /\ stack # <<>> /\ top = "$" /\ terminal # "$") =>
          /\ pc' = "done"
          /\ result' = "False"
          /\ errors' = Append(errors, [kind  |-> "TrailingInput",
                                       found |-> current.value])
    /\ (result' = "True") =>
          /\ pc = "parse"
          /\ stack # <<>>
          /\ top = "$"
          /\ terminal = "$"

C2_EndOfInputOnTop == [][C2_Step]_vars

\* A run ended with a TrailingInput error: $ was on top with input left.
C2_Witness ==
    /\ pc = "done"
    /\ result = "False"
    /\ Len(errors) = 1
    /\ errors[1].kind = "TrailingInput"
    /\ top = "$"
    /\ terminal # "$"

(***************************************************************************)
(* C3.  With a terminal t other than the current input terminal on top of  *)
(* the stack, the step ends the run with an UnexpectedToken error naming t *)
(* as expected and the current token (its text) as found; stack and cursor *)
(* stay as they were, and no step follows the end of a run.                *)
(***************************************************************************)
C3_Step ==
    /\ pc = "parse"
    /\ (stack # <<>> /\ top # "$" /\ is_terminal(top) /\ top # terminal) =>
          /\ pc' = "done"
          /\ result' = "False"
          /\ errors' = Append(errors, [kind     |-> "UnexpectedToken",
                                       expected |-> top,
                                       found    |-> tokens[pos + 1].value])
          /\ stack' = stack
          /\ pos' = pos

C3_FirstMismatchEndsTheRun == [][C3_Step]_vars

\* The built-in grammar met `then' on the stack and another token as input.
C3_Witness ==
    /\ grammar = GRAMMAR
    /\ pc = "done"
    /\ errors = << [kind |-> "UnexpectedToken", expected |-> "then",
                    found |-> "score"] >>
    /\ top = "then"
    /\ pos = 4

(***************************************************************************)
(* C4.  With a non-terminal A on top and no table entry at (A, current     *)
(* terminal), the step ends the run with a NoRuleFound error whose         *)
(* expected terminals are exactly those t with an entry at (A, t), each    *)
(* listed once; stack and cursor are unchanged.                            *)
(***************************************************************************)
Range(f) == { f[i] : i \in DOMAIN f }

HasEntry(A, t) == \E i \in DOMAIN table : table[i].nt = A /\ table[i].terminal = t

C4_Step ==
    (/\ pc = "parse"
     /\ stack # <<>>
     /\ top \in Keys(grammar) \ TERMINALS
     /\ ~ HasEntry(top, terminal)) =>
        /\ pc' = "done"
        /\ result' = "False"
        /\ Len(errors') = Len(errors) + 1
        /\ SubSeq(errors', 1, Len(errors)) = errors
        /\ LET e == errors'[Len(errors')] IN
           /\ e.kind = "NoRuleFound"
           /\ e.found = current.value
           /\ Range(e.expected) = { t \in TERMINALS : HasEntry(top, t) }
           /\ Len(e.expected) = Cardinality(Range(e.expected))
        /\ stack' = stack
        /\ pos' = pos

C4_NoRuleFound == [][C4_Step]_vars

\* OptionalElse was on top with `then' as input: else, if and $ are expected.
C4_Witness ==
    /\ grammar = GRAMMAR
    /\ pc = "done"
    /\ top = "OptionalElse"
    /\ terminal = "then"
    /\ Len(errors) = 1
    /\ errors[1].kind = "NoRuleFound"
    /\ Range(errors[1].expected) = {"else", "if", "$"}


(***************************************************************************)
(* Candidates of a table cell.                                             *)
(***************************************************************************)
\* The rule ids build_parsing_table assigned to cell (A, t) while it ran.
Recorded(A, t) ==
    UNION { { w[i].rule_num :
                i \in { j \in DOMAIN w : w[j].nt = A /\ w[j].terminal = t } }
            : w \in Loaded[grammar].writes }

\* The rule ids the built table holds at cell (A, t).
CellRules(A, t) == { e.rule_num : e \in TableGet(table, A, t) }

\* Production item is licensed for terminal t: t is in FIRST(alpha) - {epsilon},
\* or epsilon is in FIRST(alpha) and t is in FOLLOW(A).
Licensed(item, t) ==
    LET fa == IF item.prod = <<EPSILON>> THEN {EPSILON}
              ELSE compute_first_of_string(item.prod, FIRST_SETS)
    IN  \/ t \in fa \ {EPSILON}
        \/ EPSILON \in fa /\ t \in Get(FOLLOW_SETS, item.nt)

(***************************************************************************)
(* C5.  With a non-terminal A on top and a conflicted cell at (A, current  *)
(* terminal), that is a cell for which two or more productions were        *)
(* recorded, the step ends the run with an AmbiguousRule error naming the  *)
(* competing rule ids and applies none of the productions.                 *)
(***************************************************************************)
C5_Step ==
    (/\ pc = "parse"
     /\ stack # <<>>
     /\ top \in Keys(grammar) \ TERMINALS
     /\ Cardinality(Recorded(top, terminal)) >= 2) =>
        /\ pc' = "done"
        /\ result' = "False"
        /\ stack' = stack
        /\ Len(errors') = Len(errors) + 1
        /\ errors'[Len(errors')].kind = "AmbiguousRule"

C5_ConflictedCellRejects == [][C5_Step]_vars

(***************************************************************************)
(* C6.  Table construction loses no candidate: when two productions of A   *)
(* with different rule ids are both licensed for cell (A, t), the built    *)
(* table holds the rule ids of both at (A, t).                             *)
(***************************************************************************)
C6_NoCandidateLost ==
    \A a, b \in Range(Items(grammar)) :
        \A t \in TERMINALS \ {EPSILON} :
            (/\ a.nt = b.nt
             /\ a.rule_num # b.rule_num
             /\ Licensed(a, t)
             /\ Licensed(b, t)) =>
                {a.rule_num, b.rule_num} \subseteq CellRules(a.nt, t)

(***************************************************************************)
(* C7.  For the built-in GRAMMAR no two distinct productions are recorded  *)
(* at the same cell while the table is built: every cell has at most one   *)
(* candidate, and the table holds it.                                      *)
(***************************************************************************)
C7_BuiltinTableHasNoConflict ==
    grammar = GRAMMAR =>
        \A A \in Keys(grammar) : \A t \in TERMINALS :
            /\ Cardinality(Recorded(A, t)) <= 1
            /\ CellRules(A, t) = Recorded(A, t)

\* The table of the built-in grammar is built: twelve cells, among them the
\* epsilon rule 8 at (OptionalElse, if), which FOLLOW licenses.
C7_Witness ==
    /\ grammar = GRAMMAR
    /\ step = 0
    /\ Len(table) = 12
    /\ Recorded("OptionalElse", "if") = {8}
    /\ Recorded("StatementList'", "if") = {3}


(***************************************************************************)
(* C8.  For the built-in grammar every parse run terminates, with accept   *)
(* or reject; each step consumes one token (and pops the matched terminal),*)
(* or expands the non-terminal on top without moving the cursor, or ends   *)
(* the run; and the expansions are bounded by the tokens consumed: at most *)
(* five of them up to each token, so no more than five in a row.           *)
(***************************************************************************)
C8_Step ==
    (grammar = GRAMMAR /\ step' # step) =>
        /\ step' = step + 1
        /\ \/ /\ pos' = pos + 1
              /\ stack' = Pop(stack)
              /\ pc' = "parse"
           \/ /\ pos' = pos
              /\ top \in Keys(grammar)
              /\ Pop(stack') # stack' => SubSeq(stack', 1, Len(stack) - 1) = Pop(stack)
              /\ pc' = "parse"
           \/ /\ pos' = pos
              /\ stack' = stack
              /\ pc' = "done"
              /\ result' \in {"True", "False"}

C8_Terminates ==
    /\ (grammar = GRAMMAR) => <>(pc = "done")
    /\ [][C8_Step]_vars
    /\ [](grammar = GRAMMAR =>
            /\ pos <= Len(tokens)
            /\ step - pos <= 5 * (pos + 1)
            /\ step < MaxSteps)

\* A run over two statements, the first with an else part, has ended.
C8_Witness ==
    /\ grammar = GRAMMAR
    /\ pc = "done"
    /\ result = "True"
    /\ pos = 2 * Len(IfPart) + Len(ElsePart)
    /\ step - pos > 10

(***************************************************************************)
(* C9.  A run reports only its first error: when parse has returned False  *)
(* errors holds exactly one diagnostic, when it has returned True errors   *)
(* is empty, and no diagnostic is recorded while the run goes on.          *)
(***************************************************************************)
C9_OnlyTheFirstError ==
    /\ (pc = "done" /\ result = "False") => Len(errors) = 1
    /\ (pc = "done" /\ result = "True") => errors = <<>>
    /\ pc = "parse" => errors = <<>>
    /\ pc = "done" => result \in {"True", "False"}

\* A run rejected late, after a whole statement was matched.
C9_Witness ==
    /\ pc = "done"
    /\ result = "False"
    /\ Len(errors) = 1
    /\ pos >= Len(IfPart)

(***************************************************************************)
(* C10.  Every step of a run (match, apply, accept and every kind of       *)
(* error) produces exactly one trace entry, with consecutive step indices  *)
(* from 1, carrying the stack (top first) and the prefix of the remaining  *)
(* input as they were before the step, and the action taken; the entry of  *)
(* the step that ends the run is an accept or an error.                    *)
(***************************************************************************)
C10_Step ==
    (step' # step \/ pc' # pc) =>
        /\ Len(trace') = Len(trace) + 1
        /\ SubSeq(trace', 1, Len(trace)) = trace
        /\ LET row == trace'[Len(trace')]
               left == IF pos < Len(tokens) THEN Len(tokens) - pos ELSE 0
           IN  /\ row.step = step'
               /\ row.step = Len(trace')
               /\ row.stack = Reverse(stack)
               /\ Len(row.input) = Min(5, left)
               /\ \A i \in DOMAIN row.input :
                      row.input[i] = TOKEN_TO_TERMINAL[tokens[pos + i].type]
               /\ row.action.kind \in {"match", "apply", "accept", "error"}
               /\ row.action.kind = "match" <=> pos' = pos + 1
               /\ row.action.kind = "accept" <=> result' = "True"
               /\ row.action.kind = "error" <=> result' = "False"
               /\ row.action.kind = "error" <=> Len(errors') = Len(errors) + 1

C10_EveryStepIsTraced == [][C10_Step]_vars

(***************************************************************************)
(* C11.  The cursor is never rewound: a match step moves it forward by     *)
(* exactly one, every other step (apply, accept, error) leaves it where it *)
(* is, and it never passes the end-of-input token, the last of the stream. *)
(***************************************************************************)
MatchStep ==
    /\ pc = "parse"
    /\ stack # <<>>
    /\ top # "$"
    /\ top \in TERMINALS
    /\ top = TOKEN_TO_TERMINAL[tokens[pos + 1].type]

C11_Step ==
    /\ pos' >= pos
    /\ (step' # step /\ MatchStep) => pos' = pos + 1
    /\ (step' # step /\ ~ MatchStep) => pos' = pos
    /\ pos' < Len(tokens)
    /\ tokens[pos' + 1].type = "EOF" => pos' = Len(tokens) - 1

C11_CursorNeverRewound == [][C11_Step]_vars

\* The run matched every token before the end-of-input token and accepted
\* with the cursor on it.
C11_Witness ==
    /\ pc = "done"
    /\ result = "True"
    /\ pos = Len(tokens) - 1
    /\ pos >= Len(IfPart) + Len(ElsePart)
    /\ tokens[pos + 1].type = "EOF"

(***************************************************************************)
(* grammar_analysis.py.  A grammar is a dict from a non-terminal to the    *)
(* list of its production bodies: here a sequence of entries in insertion  *)
(* order, each entry a key and its list.                                   *)
(***************************************************************************)
Entry(nt, productions) == [nt |-> nt, productions |-> productions]

ORIGINAL_GRAMMAR == <<
    Entry("Program", << <<"StatementList">> >>),
    Entry("StatementList", << <<"Statement">>,
                              <<"Statement", "StatementList">> >>),
    Entry("Statement", << <<"IfStatement">>, <<"ElseStatement">> >>),
    Entry("IfStatement", << <<"if", "Condition", "then", "Assignment">> >>),
    Entry("ElseStatement", << <<"else", "Assignment">> >>),
    Entry("Condition", << <<"IDENTIFIER", ">=", "NUMBER">> >>),
    Entry("Assignment", << <<"IDENTIFIER", "is", "Value">> >>),
    Entry("Value", << <<"LETTER">> >>) >>

ga_TERMINALS == {"if", "then", "else", "is", ">=",
                 "IDENTIFIER", "NUMBER", "LETTER", "$"}

ga_is_terminal(symbol) == symbol \in ga_TERMINALS \/ symbol = EPSILON

ga_is_non_terminal(symbol) == ~ ga_is_terminal(symbol) /\ symbol # EPSILON

\* TRUE, with v evaluated: a loop below hands its state to the next
\* iteration as a value, not as an expression that is still to be evaluated.
Evaluated(v) == v = v

\* list(d.keys())
DictKeys(d) == [i \in DOMAIN d |-> d[i].nt]

\* key in d
HasKey(d, key) == \E i \in DOMAIN d : d[i].nt = key

\* d[key], for a key of d
Item(d, key) == d[CHOOSE i \in DOMAIN d : d[i].nt = key].productions

\* d[key] = value: a key of d keeps its place, a new key goes last.
SetItem(d, key, value) ==
    IF HasKey(d, key)
    THEN [i \in DOMAIN d |-> IF d[i].nt = key THEN Entry(key, value) ELSE d[i]]
    ELSE Append(d, Entry(key, value))

None == "None"

\* prod[1:] if len(prod) > 1 else [EPSILON]
Tail1(prod) == IF Len(prod) > 1 THEN Tail(prod) ELSE <<EPSILON>>

has_direct_left_recursion(non_terminal, productions) ==
    \E k \in DOMAIN productions :
        productions[k] # <<>> /\ productions[k][1] = non_terminal

\* Lines 83-91: the alphas of the productions starting with A.
Recursive(non_terminal, productions) ==
    LET sel == SelectSeq(productions,
                   LAMBDA prod : prod # <<>> /\ prod[1] = non_terminal)
    IN  [k \in DOMAIN sel |-> Tail1(sel[k])]

\* Lines 83-91: the productions not starting with A.
NonRecursive(non_terminal, productions) ==
    SelectSeq(productions,
        LAMBDA prod : ~ (prod # <<>> /\ prod[1] = non_terminal))

\* Lines 102-106 and 110-114 with A' put in front of the body.
WithPrime_front(body, a_prime) ==
    IF body = <<EPSILON>> THEN <<a_prime>> ELSE <<a_prime>> \o body

\* Lines 102-106 and 110-114: body followed by A', an epsilon body by A' alone.
WithPrime(body, a_prime) ==
    IF body = <<EPSILON>> THEN <<a_prime>> ELSE Append(body, a_prime)

eliminate_direct_left_recursion(non_terminal, productions) ==
    LET recursive == Recursive(non_terminal, productions)
        non_recursive == NonRecursive(non_terminal, productions)
        a_prime == non_terminal \o "'"
    IN  IF recursive = <<>>
        THEN [new_a_prods |-> productions, a_prime |-> None,
              a_prime_prods |-> None]
        ELSE [new_a_prods |->
                  [k \in DOMAIN non_recursive |->
                      WithPrime(non_recursive[k], a_prime)],
              a_prime |-> a_prime,
              a_prime_prods |->
                  Append([k \in DOMAIN recursive |->
                             WithPrime(recursive[k], a_prime)],
                         <<EPSILON>>)]

\* Lines 153-158: the productions that replace A_i -> A_j gamma.
RECURSIVE Expand(_, _, _)
Expand(aj_prods, gamma, k) ==
    IF k > Len(aj_prods) THEN <<>>
    ELSE << IF aj_prods[k] = <<EPSILON>>
            THEN (IF gamma # <<>> THEN gamma ELSE <<EPSILON>>)
            ELSE aj_prods[k] \o gamma >>
         \o Expand(aj_prods, gamma, k + 1)

\* Lines 149-160: new_prods, from production k of A_i on.
RECURSIVE Substitute(_, _, _, _)
Substitute(ai_prods, aj, aj_prods, k) ==
    IF k > Len(ai_prods) THEN <<>>
    ELSE LET prod == ai_prods[k]
         IN  (IF prod # <<>> /\ prod[1] = aj
              THEN Expand(aj_prods, Tail(prod), 1)
              ELSE <<prod>>)
             \o Substitute(ai_prods, aj, aj_prods, k + 1)

\* Lines 145-162: the loop over the earlier non-terminals, from j on.
RECURSIVE SubstituteEarlier(_, _, _, _)
SubstituteEarlier(g, keys, i, j) ==
    IF j >= i THEN g
    ELSE LET g1 == SetItem(g, keys[i],
                       Substitute(Item(g, keys[i]), keys[j], Item(g, keys[j]), 1))
         IN  IF Evaluated(g1) THEN SubstituteEarlier(g1, keys, i, j + 1) ELSE g1

\* Lines 164-171.
EliminateDirect(g, ai) ==
    IF has_direct_left_recursion(ai, Item(g, ai))
    THEN LET r == eliminate_direct_left_recursion(ai, Item(g, ai))
             g1 == SetItem(g, ai, r.new_a_prods)
         IN  IF r.a_prime # None /\ r.a_prime # ""
             THEN SetItem(g1, r.a_prime, r.a_prime_prods)
             ELSE g1
    ELSE g

\* Lines 143-171: the body of the loop for non_terminals[i].
EliminateAt(g, keys, i) ==
    EliminateDirect(SubstituteEarlier(g, keys, i, 1), keys[i])

RECURSIVE EliminateFrom(_, _, _)
EliminateFrom(g, keys, i) ==
    IF i > Len(keys) THEN g
    ELSE LET g1 == EliminateAt(g, keys, i)
         IN  IF Evaluated(g1) THEN EliminateFrom(g1, keys, i + 1) ELSE g1

eliminate_indirect_left_recursion(g) == EliminateFrom(g, DictKeys(g), 1)

(***************************************************************************)
(* Left factoring.                                                         *)
(***************************************************************************)
\* Line 193 with the epsilon bodies grouped like the others.
Grouped_all(prod) == prod # <<>>

\* Line 193: the productions that are put into a group.
Grouped(prod) == prod # <<>> /\ prod[1] # EPSILON

\* groups[first_symbol] of lines 191-194.
GroupOf(productions, first_symbol) ==
    SelectSeq(productions,
        LAMBDA prod : Grouped(prod) /\ prod[1] = first_symbol)

\* Lines 200-206 with the prefix cut after its first symbol.
CommonPrefixFrom_one(prods, i) == <<prods[1][i]>>

\* Lines 200-206: the longest common prefix of prods, from position i on.
RECURSIVE CommonPrefixFrom(_, _)
CommonPrefixFrom(prods, i) ==
    IF /\ \A k \in DOMAIN prods : i <= Len(prods[k])
       /\ \A k \in DOMAIN prods : prods[k][i] = prods[1][i]
    THEN <<prods[1][i]>> \o CommonPrefixFrom(prods, i + 1)
    ELSE <<>>

\* Lines 197-208 with only the group of the first production looked at.
find_common_prefix_first_group(productions) ==
    IF Len(productions) < 2 \/ ~ Grouped(productions[1])
       \/ Len(GroupOf(productions, productions[1][1])) < 2
    THEN <<>>
    ELSE CommonPrefixFrom(GroupOf(productions, productions[1][1]), 1)

\* Lines 197-208: groups are visited in the order their first symbols were
\* first met, and the first one with two productions or more decides.
find_common_prefix(productions) ==
    LET multiple == { k \in DOMAIN productions :
                        /\ Grouped(productions[k])
                        /\ Len(GroupOf(productions, productions[k][1])) >= 2 }
    IN  IF Len(productions) < 2 \/ multiple = {}
        THEN <<>>
        ELSE LET k == CHOOSE m \in multiple : \A n \in multiple : m <= n
             IN  CommonPrefixFrom(GroupOf(productions, productions[k][1]), 1)

\* defaultdict(int): a key never assigned counts 0.
Count(counter, key) == IF key \in DOMAIN counter THEN counter[key] ELSE 0

Increment(counter, key) ==
    [k \in DOMAIN counter \cup {key} |->
        IF k = key THEN Count(counter, key) + 1 ELSE counter[k]]

\* s * n
RECURSIVE Repeat(_, _)
Repeat(str, n) == IF n <= 0 THEN "" ELSE str \o Repeat(str, n - 1)

\* prod[:prefix_len] == prefix
HasPrefix(prod, prefix) ==
    Len(prod) >= Len(prefix) /\ SubSeq(prod, 1, Len(prefix)) = prefix

\* Lines 246-252.
SuffixesOf(productions, prefix) ==
    LET sel == SelectSeq(productions, LAMBDA prod : HasPrefix(prod, prefix))
    IN  [k \in DOMAIN sel |->
            IF Len(sel[k]) > Len(prefix)
            THEN SubSeq(sel[k], Len(prefix) + 1, Len(sel[k]))
            ELSE <<EPSILON>>]

\* Lines 246-252 with every production kept in A.
WithoutPrefix_all(productions, prefix) == productions

WithoutPrefix(productions, prefix) ==
    SelectSeq(productions, LAMBDA prod : ~ HasPrefix(prod, prefix))

\* Lines 232-258: the body of the loop for nt; the grammar, the counters and
\* `changed' after it.
FactorAt(g, counter, chg, nt) ==
    LET prefix == find_common_prefix(Item(g, nt))
    IN  IF prefix # <<>>
        THEN LET counter1 == Increment(counter, nt)
                 new_nt == Repeat(nt \o "'", counter1[nt])
                 with_prefix == SuffixesOf(Item(g, nt), prefix)
                 without_prefix == WithoutPrefix(Item(g, nt), prefix)
                 g1 == SetItem(g, nt, <<Append(prefix, new_nt)>> \o without_prefix)
             IN  [new_grammar |-> SetItem(g1, new_nt, with_prefix),
                  prime_counter |-> counter1,
                  changed |-> TRUE]
        ELSE [new_grammar |-> g, prime_counter |-> counter, changed |-> chg]

\* One pass of the for loop of line 231 over keys, from index i on.
RECURSIVE FactorPass(_, _, _)
FactorPass(st, keys, i) ==
    IF i > Len(keys) THEN st
    ELSE LET st1 == FactorAt(st.new_grammar, st.prime_counter, st.changed,
                             keys[i])
         IN  IF Evaluated(st1) THEN FactorPass(st1, keys, i + 1) ELSE st1

\* The while loop of line 228.
RECURSIVE FactorLoop(_)
FactorLoop(st) ==
    LET after == FactorPass([st EXCEPT !.changed = FALSE],
                            DictKeys(st.new_grammar), 1)
    IN  IF after.changed THEN FactorLoop(after) ELSE after

left_factor(g) ==
    FactorLoop([new_grammar |-> g, prime_counter |-> <<>>,
                changed |-> TRUE]).new_grammar

(***************************************************************************)
(* FIRST and FOLLOW of grammar_analysis.py.  first and follow are          *)
(* defaultdict(set): reading d[key] for a key that is absent adds the key  *)
(* with an empty set; first.get(key, set()) adds nothing.                  *)
(***************************************************************************)
Touch(d, key) ==
    IF key \in DOMAIN d THEN d
    ELSE [k \in DOMAIN d \cup {key} |-> IF k = key THEN {} ELSE d[k]]

\* Lines 284-286.
ga_FirstInit == [t \in ga_TERMINALS |-> {t}]

\* Lines 304-318: the scan of prod from position i on; first as the reads
\* leave it, and to_add.
RECURSIVE ga_FirstScan(_, _, _, _)
ga_FirstScan(first, prod, i, to_add) ==
    IF i > Len(prod)
    THEN [first |-> first, to_add |-> to_add \cup {EPSILON}]
    ELSE LET symbol == prod[i] IN
         IF ga_is_terminal(symbol)
         THEN [first |-> first, to_add |-> to_add \cup {symbol}]
         ELSE LET first1 == Touch(first, symbol)
                  more == to_add \cup (first1[symbol] \ {EPSILON})
              IN  IF EPSILON \notin first1[symbol]
                  THEN [first |-> first1, to_add |-> more]
                  ELSE ga_FirstScan(first1, prod, i + 1, more)

\* Lines 294-323 for one production of nt.
ga_FirstProduction(st, nt, prod) ==
    LET scan == IF prod = <<EPSILON>>
                THEN [first |-> st.first, to_add |-> {EPSILON}]
                ELSE ga_FirstScan(st.first, prod, 1, {})
        first1 == Touch(scan.first, nt)
    IN  IF ~ (scan.to_add \subseteq first1[nt])
        THEN [first |-> [first1 EXCEPT ![nt] = @ \cup scan.to_add],
              changed |-> TRUE]
        ELSE [first |-> first1, changed |-> st.changed]

RECURSIVE ga_FirstProductions(_, _, _, _)
ga_FirstProductions(st, nt, productions, k) ==
    IF k > Len(productions) THEN st
    ELSE LET st1 == ga_FirstProduction(st, nt, productions[k])
         IN  IF Evaluated(st1)
             THEN ga_FirstProductions(st1, nt, productions, k + 1)
             ELSE st1

\* Lines 291-323: one pass of the for loop over the grammar, from entry i.
RECURSIVE ga_FirstPass(_, _, _)
ga_FirstPass(st, g, i) ==
    IF i > Len(g) THEN st
    ELSE LET st1 == ga_FirstProductions(st, g[i].nt, g[i].productions, 1)
         IN  IF Evaluated(st1) THEN ga_FirstPass(st1, g, i + 1) ELSE st1

\* The while loop of line 290.
RECURSIVE ga_FirstLoop(_, _)
ga_FirstLoop(first, g) ==
    LET after == ga_FirstPass([first |-> first, changed |-> FALSE], g, 1)
    IN  IF after.changed THEN ga_FirstLoop(after.first, g) ELSE after.first

ga_compute_first_sets(g) == ga_FirstLoop(ga_FirstInit, g)

RECURSIVE ga_FirstOfStringScan(_, _, _, _)
ga_FirstOfStringScan(symbols, first, i, acc) ==
    IF i > Len(symbols)
    THEN acc \cup {EPSILON}
    ELSE LET symbol == symbols[i] IN
         IF ga_is_terminal(symbol)
         THEN acc \cup {symbol}
         ELSE LET more == acc \cup (Get(first, symbol) \ {EPSILON})
              IN  IF EPSILON \notin Get(first, symbol)
                  THEN more
                  ELSE ga_FirstOfStringScan(symbols, first, i + 1, more)

ga_compute_first_of_string(symbols, first) ==
    ga_FirstOfStringScan(symbols, first, 1, {})

\* d[key].update(more), d a defaultdict.
Update(d, key, more) == [Touch(d, key) EXCEPT ![key] = @ \cup more]

\* Lines 356-378 for the symbol at position i of a production of nt.
ga_FollowSymbol(st, first, nt, prod, i) ==
    LET symbol == prod[i]
        beta == SubSeq(prod, i + 1, Len(prod))
        first_beta == ga_compute_first_of_string(beta, first)
        to_add == first_beta \ {EPSILON}
        follow0 == Touch(st.follow, symbol)
    IN  IF ~ ga_is_non_terminal(symbol) THEN st
        ELSE IF beta # <<>>
        THEN LET grows == ~ (to_add \subseteq follow0[symbol])
                 follow1 == IF grows THEN Update(follow0, symbol, to_add)
                            ELSE follow0
                 follow2 == Touch(follow1, nt)
                 more == EPSILON \in first_beta
                         /\ ~ (follow2[nt] \subseteq follow2[symbol])
             IN  [follow |-> IF EPSILON \notin first_beta THEN follow1
                             ELSE IF more
                                  THEN Update(follow2, symbol, follow2[nt])
                                  ELSE follow2,
                  changed |-> st.changed \/ grows \/ more]
        ELSE LET follow1 == Touch(st.follow, nt)
                 follow2 == Touch(follow1, symbol)
                 more == ~ (follow2[nt] \subseteq follow2[symbol])
             IN  [follow |-> IF more THEN Update(follow2, symbol, follow2[nt])
                             ELSE follow2,
                  changed |-> st.changed \/ more]

RECURSIVE ga_FollowScan(_, _, _, _, _)
ga_FollowScan(st, first, nt, prod, i) ==
    IF i > Len(prod) THEN st
    ELSE LET st1 == ga_FollowSymbol(st, first, nt, prod, i)
         IN  IF Evaluated(st1) THEN ga_FollowScan(st1, first, nt, prod, i + 1)
             ELSE st1

RECURSIVE ga_FollowProductions(_, _, _, _, _)
ga_FollowProductions(st, first, nt, productions, k) ==
    IF k > Len(productions) THEN st
    ELSE LET st1 == IF productions[k] = <<EPSILON>> THEN st
                    ELSE ga_FollowScan(st, first, nt, productions[k], 1)
         IN  IF Evaluated(st1)
             THEN ga_FollowProductions(st1, first, nt, productions, k + 1)
             ELSE st1

\* Lines 348-378: one pass of the for loop over the grammar, from entry i.
RECURSIVE ga_FollowPass(_, _, _, _)
ga_FollowPass(st, first, g, i) ==
    IF i > Len(g) THEN st
    ELSE LET st1 == ga_FollowProductions(st, first, g[i].nt,
                                         g[i].productions, 1)
         IN  IF Evaluated(st1) THEN ga_FollowPass(st1, first, g, i + 1)
             ELSE st1

RECURSIVE ga_FollowLoop(_, _, _)
ga_FollowLoop(follow, first, g) ==
    LET after == ga_FollowPass([follow |-> follow, changed |-> FALSE],
                               first, g, 1)
    IN  IF after.changed THEN ga_FollowLoop(after.follow, first, g)
        ELSE after.follow

\* Lines 340-343.
ga_FollowInit(start) == Update(<<>>, start, {"$"})

ga_compute_follow_sets(g, first, start) ==
    ga_FollowLoop(ga_FollowInit(start), first, g)

(***************************************************************************)
(* The grammars the functions of grammar_analysis.py are called with:      *)
(* every grammar over the keys A and B (A alone, or A then B) whose        *)
(* production bodies hold MaxSize symbols or fewer in all, and the         *)
(* grammars listed by name.                                                *)
(***************************************************************************)
MaxSize == 3

BodySymbols == {"A", "B", "if"}

\* The production bodies of n symbols.
Bodies(n) ==
    [1..n -> BodySymbols] \cup (IF n = 1 THEN {<<EPSILON>>} ELSE {})

\* The lists of production bodies of n symbols in all.
RECURSIVE ProductionLists(_)
ProductionLists(n) ==
    IF n = 0 THEN {<<>>}
    ELSE UNION { { <<body>> \o rest :
                     body \in Bodies(k), rest \in ProductionLists(n - k) }
                 : k \in 1..n }

SmallGrammars ==
    UNION { { <<Entry("A", a)>> : a \in ProductionLists(m) } : m \in 1..MaxSize }
    \cup
    UNION { { <<Entry("A", a), Entry("B", b)>> :
                a \in ProductionLists(m[1]), b \in ProductionLists(m[2]) }
            : m \in { n \in (1..MaxSize) \X (1..MaxSize) : n[1] + n[2] <= MaxSize } }

NamedGrammars == {
    ORIGINAL_GRAMMAR,
    \* A -> A alpha | beta
    <<Entry("A", << <<"A", "then", "else">>, <<"if", "is">> >>)>>,
    \* two recursive and two other alternatives, one of them epsilon
    <<Entry("A", << <<"A", "then">>, <<"if">>, <<"A", "else", "is">>,
                    <<EPSILON>> >>)>>,
    \* A -> a b | a c
    <<Entry("A", << <<"if", "then">>, <<"if", "else">> >>)>>,
    \* a group that is not the first alternative, a prefix of two symbols
    <<Entry("A", << <<"else">>, <<"if", "then", "is">>, <<"then">>,
                    <<"if", "then">>, <<"if", "then", "else", "B">> >>),
      Entry("B", << <<"is">> >>)>>,
    \* two groups
    <<Entry("A", << <<"if", "then">>, <<"else", "is">>, <<"else", "then">>,
                    <<"if", "else">> >>)>>,
    \* left recursion and a common prefix
    <<Entry("A", << <<"A", "is">>, <<"if", "then">>, <<"if", "else">> >>)>>,
    \* a key that is already primed
    <<Entry("A", << <<"if", "A'">>, <<"if", "then">> >>),
      Entry("A'", << <<"else">>, <<EPSILON>> >>)>>,
    \* a primed key declared before the non-terminal whose prime it is
    <<Entry("A'", << <<"if">> >>),
      Entry("A", << <<"A">>, <<"then">> >>),
      Entry("B", << <<"A'", "is">> >>)>>,
    \* indirect left recursion through three non-terminals
    <<Entry("A", << <<"B", "if">>, <<"then">> >>),
      Entry("B", << <<"C", "else">>, <<EPSILON>> >>),
      Entry("C", << <<"A", "is">>, <<"B">> >>)>>,
    \* terminals that are not in TERMINALS
    <<Entry("S", << <<"pass">> >>)>>,
    <<Entry("S", << <<"A", "pass">> >>),
      Entry("A", << <<EPSILON>>, <<"if">> >>)>>,
    <<Entry("S", << <<"if", "C", "then", "R">> >>),
      Entry("C", << <<"IDENTIFIER", ">=", "NUMBER">>,
                    <<"IDENTIFIER", "<=", "NUMBER">> >>),
      Entry("R", << <<"pass">>, <<"fail">> >>)>> }

AnalysisGrammars == SmallGrammars \cup NamedGrammars

(***************************************************************************)
(* The functions of grammar_analysis.py as a state machine.  They are      *)
(* called as analyze_grammar calls them, each on the grammar the one       *)
(* before returned, or on the grammar given: left-recursion elimination    *)
(* and left factoring can each be left out.  The loops over the            *)
(* non-terminals take one step per non-terminal, the fixed-point loops of  *)
(* FIRST and FOLLOW one step per pass.                                     *)
(***************************************************************************)
\* The parser is not constructed.
ParserOff ==
    /\ grammar = <<>>
    /\ FIRST_SETS = <<>>
    /\ FOLLOW_SETS = <<>>
    /\ tokens = <<>>
    /\ show_steps = FALSE
    /\ table = <<>>
    /\ stack = <<>>
    /\ pos = 0
    /\ errors = <<>>
    /\ step = 0
    /\ trace = <<>>
    /\ pc = "off"
    /\ result = "None"
    /\ running = "main"
    /\ parked = <<>>

AnalysisInit ==
    /\ ParserOff
    /\ CallsOff
    /\ ga_pc = "start"
    /\ grammar_arg \in AnalysisGrammars
    /\ new_grammar = <<>>
    /\ non_terminals = <<>>
    /\ ga_i = 0
    /\ changed = FALSE
    /\ prime_counter = <<>>
    /\ ga_first = <<>>
    /\ ga_follow = <<>>
    /\ ga_table = <<>>

\* The keys and the counts of primes the model follows left_factor to.
MaxKeys == 12

\* The grammar the next function is called with: the one given, or the one
\* the function before returned.
Passed == IF ga_pc = "start" THEN grammar_arg ELSE new_grammar

\* Lines 138-141.
EliminateCall ==
    /\ ga_pc = "start"
    /\ ga_pc' = "eliminate"
    /\ new_grammar' = grammar_arg
    /\ non_terminals' = DictKeys(grammar_arg)
    /\ ga_i' = 1
    /\ UNCHANGED <<grammar_arg, changed, prime_counter, ga_first, ga_follow>>
    /\ UNCHANGED <<parser_vars, ga_table, call_vars>>

\* Lines 143-171 for one non-terminal.
EliminateStep ==
    /\ ga_pc = "eliminate"
    /\ ga_i <= Len(non_terminals)
    /\ new_grammar' = EliminateAt(new_grammar, non_terminals, ga_i)
    /\ ga_i' = ga_i + 1
    /\ UNCHANGED <<ga_pc, grammar_arg, non_terminals, changed, prime_counter,
                   ga_first, ga_follow>>
    /\ UNCHANGED <<parser_vars, ga_table, call_vars>>

\* Line 173.
EliminateReturn ==
    /\ ga_pc = "eliminate"
    /\ ga_i > Len(non_terminals)
    /\ ga_pc' = "no_lr"
    /\ UNCHANGED <<grammar_arg, new_grammar, non_terminals, ga_i, changed,
                   prime_counter, ga_first, ga_follow>>
    /\ UNCHANGED <<parser_vars, ga_table, call_vars>>

\* Lines 224-226.
FactorCall ==
    /\ ga_pc \in {"start", "no_lr"}
    /\ ga_pc' = "factor"
    /\ grammar_arg' = Passed
    /\ new_grammar' = Passed
    /\ changed' = TRUE
    /\ prime_counter' = <<>>
    /\ non_terminals' = <<>>
    /\ ga_i' = 1
    /\ UNCHANGED <<ga_first, ga_follow>>
    /\ UNCHANGED <<parser_vars, ga_table, call_vars>>

\* Lines 228-231: the loop goes on, over the keys the grammar has now.
FactorNextPass ==
    /\ ga_pc = "factor"
    /\ ga_i > Len(non_terminals)
    /\ changed
    /\ changed' = FALSE
    /\ non_terminals' = DictKeys(new_grammar)
    /\ ga_i' = 1
    /\ UNCHANGED <<ga_pc, grammar_arg, new_grammar, prime_counter, ga_first,
                   ga_follow>>
    /\ UNCHANGED <<parser_vars, ga_table, call_vars>>

\* Lines 232-258 for one non-terminal.
FactorStep ==
    /\ ga_pc = "factor"
    /\ ga_i <= Len(non_terminals)
    /\ Len(new_grammar) < MaxKeys
    /\ \A key \in DOMAIN prime_counter : prime_counter[key] < MaxKeys
    /\ LET st == FactorAt(new_grammar, prime_counter, changed,
                          non_terminals[ga_i])
       IN  /\ new_grammar' = st.new_grammar
           /\ prime_counter' = st.prime_counter
           /\ changed' = st.changed
    /\ ga_i' = ga_i + 1
    /\ UNCHANGED <<ga_pc, grammar_arg, non_terminals, ga_first, ga_follow>>
    /\ UNCHANGED <<parser_vars, ga_table, call_vars>>

\* Line 260.
FactorReturn ==
    /\ ga_pc = "factor"
    /\ ga_i > Len(non_terminals)
    /\ ~ changed
    /\ ga_pc' = "factored"
    /\ UNCHANGED <<grammar_arg, new_grammar, non_terminals, ga_i, changed,
                   prime_counter, ga_first, ga_follow>>
    /\ UNCHANGED <<parser_vars, ga_table, call_vars>>

\* Lines 282-289.
FirstCall ==
    /\ ga_pc \in {"start", "no_lr", "factored"}
    /\ ga_pc' = "first"
    /\ grammar_arg' = Passed
    /\ ga_first' = ga_FirstInit
    /\ changed' = TRUE
    /\ new_grammar' = <<>>
    /\ non_terminals' = <<>>
    /\ ga_i' = 0
    /\ prime_counter' = <<>>
    /\ UNCHANGED ga_follow
    /\ UNCHANGED <<parser_vars, ga_table, call_vars>>

\* Lines 290-323 with the loop left after the first pass.
FirstPassStep_once ==
    /\ ga_pc = "first"
    /\ changed
    /\ LET st == ga_FirstPass([first |-> ga_first, changed |-> FALSE],
                              grammar_arg, 1)
       IN  /\ ga_first' = st.first
           /\ changed' = FALSE
    /\ UNCHANGED <<ga_pc, grammar_arg, new_grammar, non_terminals, ga_i,
                   prime_counter, ga_follow>>
    /\ UNCHANGED <<parser_vars, ga_table, call_vars>>

\* Lines 290-323: one pass over the grammar.
FirstPassStep ==
    /\ ga_pc = "first"
    /\ changed
    /\ LET st == ga_FirstPass([first |-> ga_first, changed |-> FALSE],
                              grammar_arg, 1)
       IN  /\ ga_first' = st.first
           /\ changed' = st.changed
    /\ UNCHANGED <<ga_pc, grammar_arg, new_grammar, non_terminals, ga_i,
                   prime_counter, ga_follow>>
    /\ UNCHANGED <<parser_vars, ga_table, call_vars>>

\* Line 325.
FirstReturn ==
    /\ ga_pc = "first"
    /\ ~ changed
    /\ ga_pc' = "first_done"
    /\ UNCHANGED <<grammar_arg, new_grammar, non_terminals, ga_i, changed,
                   prime_counter, ga_first, ga_follow>>
    /\ UNCHANGED <<parser_vars, ga_table, call_vars>>

\* The start symbol the caller names: the non-terminal declared first.
Start(g) == g[1].nt

\* Lines 340-346.
FollowCall ==
    /\ ga_pc = "first_done"
    /\ ga_pc' = "follow"
    /\ ga_follow' = ga_FollowInit(Start(grammar_arg))
    /\ changed' = TRUE
    /\ UNCHANGED <<grammar_arg, new_grammar, non_terminals, ga_i,
                   prime_counter, ga_first>>
    /\ UNCHANGED <<parser_vars, ga_table, call_vars>>

\* Lines 347-378: one pass over the grammar.
FollowPassStep ==
    /\ ga_pc = "follow"
    /\ changed
    /\ LET st == ga_FollowPass([follow |-> ga_follow, changed |-> FALSE],
                               ga_first, grammar_arg, 1)
       IN  /\ ga_follow' = st.follow
           /\ changed' = st.changed
    /\ UNCHANGED <<ga_pc, grammar_arg, new_grammar, non_terminals, ga_i,
                   prime_counter, ga_first>>
    /\ UNCHANGED <<parser_vars, ga_table, call_vars>>

\* Line 380.
FollowReturn ==
    /\ ga_pc = "follow"
    /\ ~ changed
    /\ ga_pc' = "follow_done"
    /\ UNCHANGED <<grammar_arg, new_grammar, non_terminals, ga_i, changed,
                   prime_counter, ga_first, ga_follow>>
    /\ UNCHANGED <<parser_vars, ga_table, call_vars>>


(***************************************************************************)
(* The parsing table of grammar_analysis.py (lines 409-450): a dict from   *)
(* (non-terminal, terminal) to a production body; a second production for  *)
(* a key is appended to the body that is there, after the symbol " | ".    *)
(* The dict is kept as a function of its keys: the order the keys were     *)
(* inserted in, which follows the iteration order of Python sets, is not   *)
(* kept.                                                                   *)
(***************************************************************************)
\* Lines 436-440 and 446-449 for one key.
Candidates(tbl, key, prod) ==
    IF key \in DOMAIN tbl THEN tbl[key] \o <<" | ">> \o prod ELSE prod

\* The loops of lines 434 and 444: prod is recorded for nt under every
\* terminal of the set targets.
RecordAll(tbl, nt, targets, prod) ==
    [key \in DOMAIN tbl \cup {<<nt, t>> : t \in targets} |->
        IF key[1] = nt /\ key[2] \in targets
        THEN Candidates(tbl, key, prod)
        ELSE tbl[key]]

\* Lines 427-449 for one production.
ga_TableProduction(tbl, first, follow, nt, prod) ==
    LET alpha_first == IF prod = <<EPSILON>> THEN {EPSILON}
                       ELSE ga_compute_first_of_string(prod, first)
        tbl1 == RecordAll(tbl, nt, alpha_first \ {EPSILON}, prod)
    IN  IF EPSILON \in alpha_first
        THEN RecordAll(tbl1, nt, Get(follow, nt), prod)
        ELSE tbl1

\* Line 426: the productions of nt from index k on.
RECURSIVE ga_TableProductions(_, _, _, _, _, _)
ga_TableProductions(tbl, first, follow, nt, productions, k) ==
    IF k > Len(productions) THEN tbl
    ELSE LET tbl1 == ga_TableProduction(tbl, first, follow, nt, productions[k])
         IN  IF Evaluated(tbl1)
             THEN ga_TableProductions(tbl1, first, follow, nt, productions, k + 1)
             ELSE tbl1

\* Line 425: the items of the grammar from index i on.
RECURSIVE ga_TableItems(_, _, _, _, _)
ga_TableItems(tbl, first, follow, g, i) ==
    IF i > Len(g) THEN tbl
    ELSE LET tbl1 == ga_TableProductions(tbl, first, follow, g[i].nt,
                                         g[i].productions, 1)
         IN  IF Evaluated(tbl1)
             THEN ga_TableItems(tbl1, first, follow, g, i + 1)
             ELSE tbl1

ga_build_parsing_table(g, first, follow) ==
    ga_TableItems(<<>>, first, follow, g, 1)

\* Lines 409-450, called with the sets the two functions before returned.
BuildTable ==
    /\ ga_pc = "follow_done"
    /\ ga_pc' = "table_done"
    /\ ga_table' = ga_build_parsing_table(grammar_arg, ga_first, ga_follow)
    /\ UNCHANGED <<grammar_arg, new_grammar, non_terminals, ga_i, changed,
                   prime_counter, ga_first, ga_follow>>
    /\ UNCHANGED <<parser_vars, call_vars>>

AnalysisNext ==
    \/ EliminateCall
    \/ EliminateStep
    \/ EliminateReturn
    \/ FactorCall
    \/ FactorNextPass
    \/ FactorStep
    \/ FactorReturn
    \/ FirstCall
    \/ FirstPassStep
    \/ FirstReturn
    \/ FollowCall
    \/ FollowPassStep
    \/ FollowReturn
    \/ BuildTable

AnalysisSpec == AnalysisInit /\ [][AnalysisNext]_vars

(***************************************************************************)
(* compute_first_sets and compute_follow_sets called on the grammar given, *)
(* followed production by production: a pass of `while changed' begins     *)
(* (ga_pc "first_pass", "follow_pass"), visits the productions of the      *)
(* grammar in order, ga_i counting them, and ends at the test of the       *)
(* while loop (ga_pc "first", "follow").                                   *)
(***************************************************************************)
\* for nt, productions in grammar.items(): for prod in productions
RECURSIVE Visited(_, _)
Visited(g, i) ==
    IF i > Len(g) THEN <<>>
    ELSE [k \in DOMAIN g[i].productions |->
             [nt |-> g[i].nt, prod |-> g[i].productions[k]]]
         \o Visited(g, i + 1)

\* Lines 290-291.
FirstPassBegin ==
    /\ ga_pc = "first"
    /\ changed
    /\ ga_pc' = "first_pass"
    /\ changed' = FALSE
    /\ ga_i' = 1
    /\ UNCHANGED <<grammar_arg, new_grammar, non_terminals, prime_counter,
                   ga_first, ga_follow>>
    /\ UNCHANGED <<parser_vars, ga_table, call_vars>>

\* Lines 294-323: the body of the loop for one production.
FirstProductionStep ==
    /\ ga_pc = "first_pass"
    /\ ga_i <= Len(Visited(grammar_arg, 1))
    /\ LET visit == Visited(grammar_arg, 1)[ga_i]
           st == ga_FirstProduction([first |-> ga_first, changed |-> changed],
                                    visit.nt, visit.prod)
       IN  /\ ga_first' = st.first
           /\ changed' = st.changed
    /\ ga_i' = ga_i + 1
    /\ UNCHANGED <<ga_pc, grammar_arg, new_grammar, non_terminals,
                   prime_counter, ga_follow>>
    /\ UNCHANGED <<parser_vars, ga_table, call_vars>>

\* Line 293 with no production left: back to line 290.
FirstPassEnd_ga ==
    /\ ga_pc = "first_pass"
    /\ ga_i > Len(Visited(grammar_arg, 1))
    /\ ga_pc' = "first"
    /\ ga_i' = 0
    /\ UNCHANGED <<grammar_arg, new_grammar, non_terminals, changed,
                   prime_counter, ga_first, ga_follow>>
    /\ UNCHANGED <<parser_vars, ga_table, call_vars>>

\* Lines 347-348.
FollowPassBegin ==
    /\ ga_pc = "follow"
    /\ changed
    /\ ga_pc' = "follow_pass"
    /\ changed' = FALSE
    /\ ga_i' = 1
    /\ UNCHANGED <<grammar_arg, new_grammar, non_terminals, prime_counter,
                   ga_first, ga_follow>>
    /\ UNCHANGED <<parser_vars, ga_table, call_vars>>

FollowProductionStep_changed ==
    /\ ga_pc = "follow_pass"
    /\ ga_i <= Len(Visited(grammar_arg, 1))
    /\ LET visit == Visited(grammar_arg, 1)[ga_i]
           st == IF visit.prod = <<EPSILON>>
                 THEN [follow |-> ga_follow, changed |-> changed]
                 ELSE ga_FollowScan([follow |-> ga_follow, changed |-> changed],
                                    ga_first, visit.nt, visit.prod, 1)
       IN  /\ ga_follow' = st.follow
           /\ changed' = TRUE
    /\ ga_i' = ga_i + 1
    /\ UNCHANGED <<ga_pc, grammar_arg, new_grammar, non_terminals,
                   prime_counter, ga_first>>
    /\ UNCHANGED <<parser_vars, ga_table, call_vars>>

\* Lines 351-378: the body of the loop for one production.
FollowProductionStep ==
    /\ ga_pc = "follow_pass"
    /\ ga_i <= Len(Visited(grammar_arg, 1))
    /\ LET visit == Visited(grammar_arg, 1)[ga_i]
           st == IF visit.prod = <<EPSILON>>
                 THEN [follow |-> ga_follow, changed |-> changed]
                 ELSE ga_FollowScan([follow |-> ga_follow, changed |-> changed],
                                    ga_first, visit.nt, visit.prod, 1)
       IN  /\ ga_follow' = st.follow
           /\ changed' = st.changed
    /\ ga_i' = ga_i + 1
    /\ UNCHANGED <<ga_pc, grammar_arg, new_grammar, non_terminals,
                   prime_counter, ga_first>>
    /\ UNCHANGED <<parser_vars, ga_table, call_vars>>

\* Line 350 with no production left: back to line 347.
FollowPassEnd_ga ==
    /\ ga_pc = "follow_pass"
    /\ ga_i > Len(Visited(grammar_arg, 1))
    /\ ga_pc' = "follow"
    /\ ga_i' = 0
    /\ UNCHANGED <<grammar_arg, new_grammar, non_terminals, changed,
                   prime_counter, ga_first, ga_follow>>
    /\ UNCHANGED <<parser_vars, ga_table, call_vars>>

SetsNext ==
    \/ FirstCall
    \/ FirstPassBegin
    \/ FirstProductionStep
    \/ FirstPassEnd_ga
    \/ FirstReturn
    \/ FollowCall
    \/ FollowPassBegin
    \/ FollowProductionStep
    \/ FollowPassEnd_ga
    \/ FollowReturn

\* A function that was called goes on running: no step of it waits for
\* anything.
SetsFairSpec == AnalysisInit /\ [][SetsNext]_vars /\ WF_vars(SetsNext)

(***************************************************************************)
(* FIRST and FOLLOW by derivation, for a grammar g given as a dict: its    *)
(* non-terminals are its keys.  A symbol X begins Y when X =>* Y gamma.    *)
(***************************************************************************)
\* The terminals grammars are written with: those of TERMINALS and those of
\* the specification's example grammar.
TerminalNames == ga_TERMINALS \cup {"pass", "fail", "<="}

SymbolsOf(g) ==
    UNION { UNION { Range(g[i].productions[k]) : k \in DOMAIN g[i].productions }
            : i \in DOMAIN g }

TerminalsOf(g) == SymbolsOf(g) \cap TerminalNames

NonTerminalsOf(g) == Range(DictKeys(g))

AllProductions(g, A) ==
    UNION { IF g[i].nt = A THEN Range(g[i].productions) ELSE {}
            : i \in DOMAIN g }

\* The non-terminals that derive the empty string.
RECURSIVE NullableFrom(_, _)
NullableFrom(g, N) ==
    LET N1 == { A \in NonTerminalsOf(g) :
                  \E prod \in AllProductions(g, A) :
                      \A k \in DOMAIN prod : prod[k] \in N \cup {EPSILON} }
    IN  IF N1 = N THEN N ELSE NullableFrom(g, N1)

Nullable(g) == NullableFrom(g, {})

\* The symbols Y with A -> alpha Y beta for a production of A and alpha =>* empty.
LeftCorners(g, A) ==
    UNION { { prod[k] : k \in { m \in DOMAIN prod :
                                  \A n \in 1..(m - 1) :
                                      prod[n] \in Nullable(g) \cup {EPSILON} } }
            : prod \in AllProductions(g, A) }

RECURSIVE BeginsFrom(_, _)
BeginsFrom(g, S) ==
    LET S1 == S \cup UNION { LeftCorners(g, X) : X \in S }
    IN  IF S1 = S THEN S ELSE BeginsFrom(g, S1)

\* FIRST(X) for a symbol X of g.
FirstOf(g, X) ==
    IF X \in NonTerminalsOf(g)
    THEN (BeginsFrom(g, {X}) \cap TerminalNames)
         \cup (IF X \in Nullable(g) THEN {EPSILON} ELSE {})
    ELSE IF X \in TerminalNames THEN {X} ELSE {}

(***************************************************************************)
(* C12.  The FIRST sets compute_first_sets returns are the least fixed     *)
(* point: FIRST(t) = {t} for every terminal t of the grammar, and for      *)
(* every non-terminal A, FIRST(A) holds the terminal t iff A derives a     *)
(* string that begins with t, and epsilon iff A derives the empty string;  *)
(* for every grammar, whatever its terminals.                              *)
(***************************************************************************)
C12_FirstIsLeastFixedPoint ==
    ga_pc = "first_done" =>
        /\ \A t \in TerminalsOf(grammar_arg) :
               t \in DOMAIN ga_first /\ ga_first[t] = {t}
        /\ \A A \in NonTerminalsOf(grammar_arg) :
               Get(ga_first, A) = FirstOf(grammar_arg, A)

\* Whether the string w derives the empty string.
NullableString(g, w) ==
    \A k \in DOMAIN w : w[k] \in Nullable(g) \cup {EPSILON}

\* FIRST(w) without epsilon, for a string w of symbols of g.
FirstOfString(g, w) ==
    UNION { FirstOf(g, w[k]) \ {EPSILON}
            : k \in { m \in DOMAIN w :
                        NullableString(g, SubSeq(w, 1, m - 1)) } }

\* One application of the FOLLOW rules to the family F of sets.
FollowRules(g, F) ==
    [ B \in NonTerminalsOf(g) |->
        F[B] \cup
        UNION { UNION { UNION { IF prod[k] = B
                                THEN LET beta == SubSeq(prod, k + 1, Len(prod))
                                     IN  FirstOfString(g, beta)
                                         \cup (IF NullableString(g, beta)
                                               THEN F[A] ELSE {})
                                ELSE {}
                                : k \in DOMAIN prod }
                        : prod \in AllProductions(g, A) }
                : A \in NonTerminalsOf(g) } ]

RECURSIVE FollowFrom(_, _)
FollowFrom(g, F) ==
    LET F1 == FollowRules(g, F)
    IN  IF F1 = F THEN F ELSE FollowFrom(g, F1)

\* FOLLOW(B) for every non-terminal B of g, with the start symbol given.
FollowOf(g, start_symbol) ==
    FollowFrom(g, [ B \in NonTerminalsOf(g) |->
                      IF B = start_symbol THEN {"$"} ELSE {} ])

(***************************************************************************)
(* C13.  The FOLLOW sets compute_follow_sets returns are the least fixed   *)
(* point of the FOLLOW rules: the end marker is in FOLLOW of the start     *)
(* symbol, FIRST(beta) without epsilon is in FOLLOW(B) for every           *)
(* production A -> alpha B beta, FOLLOW(A) is in FOLLOW(B) when beta is    *)
(* empty or derives the empty string, and nothing else is in any set.      *)
(***************************************************************************)
C13_FollowIsLeastFixedPoint ==
    ga_pc = "follow_done" =>
        \A B \in NonTerminalsOf(grammar_arg) :
            Get(ga_follow, B) = FollowOf(grammar_arg, Start(grammar_arg))[B]

(***************************************************************************)
(* C14.  The sets returned are a fixed point: one more full pass of the    *)
(* FIRST update over the grammar changes no FIRST set, one more full pass  *)
(* of the FOLLOW update changes no FOLLOW set, and computing the sets      *)
(* again from the same grammar yields the same sets.                       *)
(***************************************************************************)
C14_OneMorePassChangesNothing ==
    /\ ga_pc \in {"first_done", "follow", "follow_done"} =>
           LET st == ga_FirstPass([first |-> ga_first, changed |-> FALSE],
                                  grammar_arg, 1)
           IN  /\ ~ st.changed
               /\ st.first = ga_first
               /\ ga_compute_first_sets(grammar_arg) = ga_first
    /\ ga_pc = "follow_done" =>
           LET st == ga_FollowPass([follow |-> ga_follow, changed |-> FALSE],
                                   ga_first, grammar_arg, 1)
           IN  /\ ~ st.changed
               /\ st.follow = ga_follow
               /\ ga_compute_follow_sets(grammar_arg, ga_first,
                                         Start(grammar_arg)) = ga_follow

C14_Witness ==
    /\ ga_pc = "follow_done"
    /\ \E B \in NonTerminalsOf(grammar_arg) :
           /\ Cardinality(Get(ga_first, B)) >= 2
           /\ Cardinality(Get(ga_follow, B)) >= 2

\* Some production of the non-terminal g[i].nt begins with that non-terminal.
LeftRecursiveAt(g, i) ==
    \E k \in DOMAIN g[i].productions :
        /\ g[i].productions[k] # <<>>
        /\ g[i].productions[k][1] = g[i].nt

(***************************************************************************)
(* C15.  In the grammar eliminate_indirect_left_recursion returns, no      *)
(* non-terminal, original or primed, has a production whose first symbol   *)
(* is that non-terminal.                                                   *)
(***************************************************************************)
C15_NoResidualLeftRecursion ==
    ga_pc = "no_lr" =>
        \A i \in DOMAIN new_grammar : ~ LeftRecursiveAt(new_grammar, i)

\* The productions handed to eliminate_direct_left_recursion for the
\* non-terminal the loop is at.
HandedOver ==
    Item(SubstituteEarlier(new_grammar, non_terminals, ga_i, 1),
         non_terminals[ga_i])

\* The alternatives of productions that begin with A, in order.
RecursiveAlternatives(A, productions) ==
    SelectSeq(productions, LAMBDA prod : prod # <<>> /\ prod[1] = A)

\* The other alternatives, in order.
OtherAlternatives(A, productions) ==
    SelectSeq(productions, LAMBDA prod : prod = <<>> \/ prod[1] # A)

\* The string of symbols a body stands for: [epsilon] is the empty string.
AsString(body) == IF body = <<EPSILON>> THEN <<>> ELSE body

(***************************************************************************)
(* C16.  Direct elimination on A with the recursive alternatives           *)
(* A alpha_1 .. A alpha_k and the other alternatives beta_1 .. beta_m      *)
(* gives A -> beta_1 A' | .. | beta_m A' and                               *)
(* A' -> alpha_1 A' | .. | alpha_k A' | epsilon, the betas and the alphas  *)
(* each in their input order.                                              *)
(***************************************************************************)
C16_Step ==
    (/\ ga_pc = "eliminate"
     /\ ga_i <= Len(non_terminals)
     /\ ga_i' = ga_i + 1
     /\ RecursiveAlternatives(non_terminals[ga_i], HandedOver) # <<>>)
    => LET A      == non_terminals[ga_i]
           alphas == RecursiveAlternatives(A, HandedOver)
           betas  == OtherAlternatives(A, HandedOver)
           fresh  == A \o "'"
       IN  /\ Item(new_grammar', A) =
                  [m \in DOMAIN betas |-> AsString(betas[m]) \o <<fresh>>]
           /\ Item(new_grammar', fresh) =
                  [k \in DOMAIN alphas |-> Tail(alphas[k]) \o <<fresh>>]
                  \o << <<EPSILON>> >>

C16_DirectElimination == [][C16_Step]_vars

C16_Witness ==
    /\ ga_pc = "eliminate"
    /\ ga_i = 2
    /\ grammar_arg = << Entry("A", << <<"A", "then">>, <<"if">>,
                                      <<"A", "else", "is">>, <<EPSILON>> >>) >>
    /\ Item(new_grammar, "A") = << <<"if", "A'">>, <<"A'">> >>
    /\ Item(new_grammar, "A'") = << <<"then", "A'">>, <<"else", "is", "A'">>,
                                    <<EPSILON>> >>

\* A derives, in one step or more, a string that begins with A.
LeftRecursive(g, A) ==
    \E Y \in LeftCorners(g, A) : A \in BeginsFrom(g, {Y})

(***************************************************************************)
(* C17.  eliminate_indirect_left_recursion applied to a grammar in which   *)
(* no non-terminal is left-recursive, directly or indirectly, returns a    *)
(* grammar equal to its input: the same non-terminals with the same        *)
(* alternatives in the same order.                                         *)
(***************************************************************************)
C17_EliminationIsIdempotent ==
    (/\ ga_pc = "no_lr"
     /\ \A A \in NonTerminalsOf(grammar_arg) : ~ LeftRecursive(grammar_arg, A))
    => new_grammar = grammar_arg

\* Two alternatives of productions begin with the same symbol.
SharedLeadingSymbol(productions) ==
    \E k1, k2 \in DOMAIN productions :
        /\ k1 # k2
        /\ productions[k1] # <<>>
        /\ productions[k2] # <<>>
        /\ productions[k1][1] = productions[k2][1]

(***************************************************************************)
(* C18.  In the grammar left_factor returns, no non-terminal, original or  *)
(* generated, has two alternatives that begin with the same symbol.        *)
(***************************************************************************)
C18_NoResidualCommonPrefix ==
    ga_pc = "factored" =>
        \A i \in DOMAIN new_grammar :
            ~ SharedLeadingSymbol(new_grammar[i].productions)

\* The alternatives of productions but the empty bodies [epsilon].
NonEmptyBodies(productions) ==
    SelectSeq(productions, LAMBDA prod : prod # <<EPSILON>>)

\* C18 as amended: in the grammar left_factor returns, no non-terminal,
\* original or generated, has two alternatives with a non-empty body that
\* begin with the same symbol; the empty body [epsilon] may be there twice.
C18_NoResidualCommonPrefixOfNonEmptyBodies ==
    ga_pc = "factored" =>
        \A i \in DOMAIN new_grammar :
            ~ SharedLeadingSymbol(NonEmptyBodies(new_grammar[i].productions))

C18_Witness ==
    /\ ga_pc = "factored"
    /\ \E i \in DOMAIN grammar_arg :
           SharedLeadingSymbol(NonEmptyBodies(grammar_arg[i].productions))
    /\ Len(new_grammar) >= Len(grammar_arg) + 2

\* The alternatives of productions that have a non-empty body and share
\* their leading symbol with another alternative.
InSomeGroup(productions) ==
    { k \in DOMAIN productions :
        /\ productions[k] \notin {<<>>, <<EPSILON>>}
        /\ \E k2 \in DOMAIN productions :
               /\ k2 # k
               /\ productions[k2] # <<>>
               /\ productions[k2][1] = productions[k][1] }

\* The first group, in the declared order of the alternatives, of two
\* alternatives or more that share a leading symbol; <<>> if there is none.
FirstGroup(productions) ==
    IF InSomeGroup(productions) = {} THEN <<>>
    ELSE LET k == CHOOSE m \in InSomeGroup(productions) :
                      \A n \in InSomeGroup(productions) : m <= n
         IN  SelectSeq(productions,
                 LAMBDA prod : prod # <<>> /\ prod[1] = productions[k][1])

\* The longest sequence every member of group begins with.
LongestCommonPrefix(group) ==
    LET common == { n \in 0..Len(group[1]) :
                      \A k \in DOMAIN group :
                          /\ Len(group[k]) >= n
                          /\ SubSeq(group[k], 1, n) = SubSeq(group[1], 1, n) }
        longest == CHOOSE n \in common : \A m \in common : m <= n
    IN  SubSeq(group[1], 1, longest)

\* seq without its k-th element.
Without(seq, k) == SubSeq(seq, 1, k - 1) \o SubSeq(seq, k + 1, Len(seq))

(***************************************************************************)
(* C19.  One left-factoring step on a non-terminal A takes the first       *)
(* group, in the declared order of the alternatives, of two alternatives   *)
(* or more that share a leading symbol, and their longest common prefix    *)
(* p; after the step A has the single alternative p + fresh for the group  *)
(* next to its other alternatives, and fresh has one alternative for each  *)
(* member of the group, in order: what follows p in it, or [epsilon] if    *)
(* nothing follows.                                                        *)
(***************************************************************************)
C19_Step ==
    (/\ ga_pc = "factor"
     /\ ga_i <= Len(non_terminals)
     /\ ga_i' = ga_i + 1
     /\ FirstGroup(Item(new_grammar, non_terminals[ga_i])) # <<>>)
    => LET A      == non_terminals[ga_i]
           before == Item(new_grammar, A)
           group  == FirstGroup(before)
           prefix == LongestCommonPrefix(group)
           after  == Item(new_grammar', A)
       IN  \E fresh \in Range(DictKeys(new_grammar')) \ {A} :
               /\ \E k \in DOMAIN after :
                      /\ after[k] = prefix \o <<fresh>>
                      /\ Without(after, k) =
                             SelectSeq(before,
                                 LAMBDA prod : prod \notin Range(group))
               /\ Item(new_grammar', fresh) =
                      [k \in DOMAIN group |->
                          IF Len(group[k]) > Len(prefix)
                          THEN SubSeq(group[k], Len(prefix) + 1, Len(group[k]))
                          ELSE <<EPSILON>>]

C19_OneFactoringStep == [][C19_Step]_vars

\* A -> if then | if else has become A -> if A', A' -> then | else.
C19_Witness ==
    /\ ga_pc = "factor"
    /\ ga_i = 2
    /\ grammar_arg = << Entry("A", << <<"if", "then">>, <<"if", "else">> >>) >>
    /\ new_grammar = << Entry("A", << <<"if", "A'">> >>),
                        Entry("A'", << <<"then">>, <<"else">> >>) >>

(***************************************************************************)
(* C20.  left_factor applied to a grammar in which no non-terminal has     *)
(* two alternatives with a common leading symbol returns a grammar equal   *)
(* to its input, and no non-terminal is added: the grammar the function   *)
(* works on stays equal to its input until it is returned.                 *)
(***************************************************************************)
C20_FactoringIsIdempotent ==
    (/\ ga_pc \in {"factor", "factored"}
     /\ \A i \in DOMAIN grammar_arg :
            ~ SharedLeadingSymbol(NonEmptyBodies(grammar_arg[i].productions)))
    => /\ new_grammar = grammar_arg
       /\ DictKeys(new_grammar) = DictKeys(grammar_arg)

\* left_factor has returned for a grammar of two non-terminals or more, one
\* of them with several alternatives, none with a common leading symbol.
C20_Witness ==
    /\ ga_pc = "factored"
    /\ new_grammar = grammar_arg
    /\ Len(grammar_arg) >= 2
    /\ \E i \in DOMAIN grammar_arg : Len(grammar_arg[i].productions) >= 2
    /\ \A i \in DOMAIN grammar_arg :
           ~ SharedLeadingSymbol(NonEmptyBodies(grammar_arg[i].productions))

(***************************************************************************)
(* C21.  Every non-terminal name left factoring generates is fresh: it is  *)
(* the name of no non-terminal the grammar has at that moment, generated   *)
(* earlier in the run or primed by the left-recursion elimination, so a    *)
(* step that factors A adds one non-terminal and leaves the productions    *)
(* of every non-terminal but A as they were.                               *)
(***************************************************************************)
C21_Step ==
    (/\ ga_pc = "factor"
     /\ ga_i <= Len(non_terminals)
     /\ ga_i' = ga_i + 1
     /\ new_grammar' # new_grammar)
    => /\ Len(new_grammar') = Len(new_grammar) + 1
       /\ new_grammar'[Len(new_grammar')].nt \notin Range(DictKeys(new_grammar))
       /\ \A i \in DOMAIN new_grammar :
              new_grammar[i].nt # non_terminals[ga_i]
              => new_grammar'[i] = new_grammar[i]

C21_GeneratedNamesAreFresh == [][C21_Step]_vars

(***************************************************************************)
(* C22.  A non-terminal that stands in a production body and has no entry  *)
(* in the grammar is reported when the grammar is constructed, before the  *)
(* FIRST and FOLLOW sets and the table are built, and never shows up first *)
(* in a parse run: no parse run ends on a symbol of its stack that is      *)
(* neither a terminal nor a non-terminal of the grammar.                   *)
(***************************************************************************)
C22_DanglingReferenceNeverReachesParse ==
    \A k \in DOMAIN errors : errors[k].kind # "UnknownSymbol"

\* S -> if C then R, C -> IDENTIFIER >= NUMBER | IDENTIFIER <= NUMBER,
\* R -> pass | fail.
ExampleGrammar ==
    << Entry("S", << <<"if", "C", "then", "R">> >>),
       Entry("C", << <<"IDENTIFIER", ">=", "NUMBER">>,
                     <<"IDENTIFIER", "<=", "NUMBER">> >>),
       Entry("R", << <<"pass">>, <<"fail">> >>) >>

(***************************************************************************)
(* C23.  The table built for the grammar S -> if C then R,                 *)
(* C -> IDENTIFIER >= NUMBER | IDENTIFIER <= NUMBER, R -> pass | fail has  *)
(* one candidate, a production of the non-terminal of the cell and nothing *)
(* else, in each of the cells (S, if), (C, IDENTIFIER), (R, pass) and      *)
(* (R, fail), and has no other cell.                                       *)
(***************************************************************************)
C23_ExampleTable ==
    (ga_pc = "table_done" /\ grammar_arg = ExampleGrammar)
    => /\ DOMAIN ga_table = { <<"S", "if">>, <<"C", "IDENTIFIER">>,
                              <<"R", "pass">>, <<"R", "fail">> }
       /\ \A key \in DOMAIN ga_table :
              ga_table[key] \in AllProductions(grammar_arg, key[1])

\* The symbols of the match rows of a trace, in order.
MatchedSymbols(rows) ==
    LET matches == SelectSeq(rows, LAMBDA row : row.action.kind = "match")
    IN  [k \in DOMAIN matches |-> matches[k].action.symbol]

(***************************************************************************)
(* C24.  The token stream of `if score >= 90 then pass' is accepted, and   *)
(* its trace begins with an apply, has a match for each of its tokens in   *)
(* order (if, the identifier, >=, the number, then and pass), with applies *)
(* between them, and ends with an accept.                                  *)
(***************************************************************************)
C24_AcceptScenario ==
    (/\ pc = "done"
     /\ grammar = GRAMMAR
     /\ tokens = tokenize(<<"if", "score", ">=", "90", "then", "pass">>))
    => /\ result = "True"
       /\ show_steps =>
              /\ trace # <<>>
              /\ trace[1].action.kind = "apply"
              /\ trace[Len(trace)].action.kind = "accept"
              /\ MatchedSymbols(trace) = Pop(StreamTerminals)

\* The tokens k-3 .. k of the stream are if IDENTIFIER >= NUMBER: what a
\* statement has before its `then'.
ConditionEndsAt(k) ==
    /\ k >= 4
    /\ k <= Len(tokens)
    /\ [i \in 1..4 |-> tokens[k - 4 + i].type]
           = <<"IF", "IDENTIFIER", "GTE", "NUMBER">>

(***************************************************************************)
(* C25.  A statement whose `then' is missing, the token in its place being *)
(* some other token, is rejected at that token with an UnexpectedToken     *)
(* error that names `then' as expected and the text of the token present   *)
(* as found, and the run never goes past that token; for                   *)
(* `if score >= 90 pass' the token found is `pass'.                        *)
(***************************************************************************)
C25_RejectScenario ==
    grammar = GRAMMAR =>
        /\ \A k \in 1..(pos - 1) :
               ConditionEndsAt(k) => tokens[k + 1].type = "THEN"
        /\ (pc = "done" /\ ConditionEndsAt(pos) /\ tokens[pos + 1].type # "THEN")
           => /\ result = "False"
              /\ errors = << [kind     |-> "UnexpectedToken",
                              expected |-> "then",
                              found    |-> tokens[pos + 1].value] >>

C25_Witness ==
    /\ grammar = GRAMMAR
    /\ pc = "done"
    /\ tokens = tokenize(<<"if", "score", ">=", "90", "pass">>)
    /\ pos = 4
    /\ result = "False"
    /\ errors = << [kind |-> "UnexpectedToken", expected |-> "then",
                    found |-> "pass"] >>

(***************************************************************************)
(* Parser instances run side by side.  Each TableDrivenParser has its own  *)
(* tokens, show_steps, stack, pos and errors, its parse() its own step     *)
(* counter, and the rows it prints are its trace; the grammar, the FIRST   *)
(* and FOLLOW sets and the table built from them are the same for every    *)
(* instance.  A run goes on while its instance is the running one; a       *)
(* switch parks the running instance and resumes another between two       *)
(* iterations of the loop of parse().                                      *)
(***************************************************************************)
\* The fields of the running instance.
Instance ==
    [tokens |-> tokens, show_steps |-> show_steps, stack |-> stack,
     pos |-> pos, errors |-> errors, step |-> step, trace |-> trace,
     pc |-> pc, result |-> result]

\* TableDrivenParser(tokens, show_steps), lines 417-423, and the entry of
\* parse(), line 447.
NewInstance(toks, show) ==
    [tokens |-> toks, show_steps |-> show, stack |-> <<"$", "Program">>,
     pos |-> 0, errors |-> <<>>, step |-> 0, trace |-> <<>>,
     pc |-> "parse", result |-> "None"]

\* Sources for the instances: the scenarios, a source that begins with no
\* statement, and one with input after a sentence of ConflictGrammar.
PairSources == ScenarioSources \cup { <<"then">>, <<"if", "then", "if">> }

\* Three instances: `alone' runs first, from its first step to its return,
\* while no other instance has started; `first' has the tokens and
\* show_steps of `alone'; `second' has any.
PairInit ==
    /\ AnalysisOff
    /\ CallsOff
    /\ grammar \in Grammars
    /\ FIRST_SETS = Loaded[grammar].FIRST_SETS
    /\ FOLLOW_SETS = Loaded[grammar].FOLLOW_SETS
    /\ table \in Loaded[grammar].tables
    /\ tokens \in { tokenize(source) : source \in PairSources }
    /\ show_steps \in BOOLEAN
    /\ pos = 0
    /\ stack = <<"$", "Program">>
    /\ errors = <<>>
    /\ step = 0
    /\ trace = <<>>
    /\ pc = "parse"
    /\ result = "None"
    /\ running = "alone"
    /\ \E source \in PairSources, show \in BOOLEAN :
           parked = [name \in {"first", "second"} |->
                        IF name = "first"
                        THEN NewInstance(tokens, show_steps)
                        ELSE NewInstance(tokenize(source), show)]

\* The running instance is parked and an instance whose run has not
\* returned goes on.
Switch ==
    /\ running = "alone" => pc = "done"
    /\ \E to \in DOMAIN parked :
           /\ to # "alone"
           /\ parked[to].pc = "parse"
           /\ tokens' = parked[to].tokens
           /\ show_steps' = parked[to].show_steps
           /\ stack' = parked[to].stack
           /\ pos' = parked[to].pos
           /\ errors' = parked[to].errors
           /\ step' = parked[to].step
           /\ trace' = parked[to].trace
           /\ pc' = parked[to].pc
           /\ result' = parked[to].result
           /\ running' = to
           /\ parked' = [name \in (DOMAIN parked \ {to}) \cup {running} |->
                            IF name = running THEN Instance ELSE parked[name]]
    /\ UNCHANGED <<grammar, FIRST_SETS, FOLLOW_SETS, table, ga_vars, call_vars>>

PairNext == Next \/ Switch

PairSpec == PairInit /\ [][PairNext]_vars

\* The instance of that name, running or parked.
InstanceOf(name) == IF running = name THEN Instance ELSE parked[name]

(***************************************************************************)
(* C26.  No step of a parse run writes to the parsing table, the grammar   *)
(* or the FIRST and FOLLOW sets, and a run interleaved step by step with   *)
(* another run over the same table and grammar ends with the result, the   *)
(* errors and the trace of the run of the same tokens made alone.          *)
(***************************************************************************)
C26_Step ==
    /\ UNCHANGED <<grammar, FIRST_SETS, FOLLOW_SETS, table>>
    /\ (running' # "main" /\ InstanceOf("first")'.pc = "done")
       => /\ InstanceOf("first")'.result = InstanceOf("alone")'.result
          /\ InstanceOf("first")'.errors = InstanceOf("alone")'.errors
          /\ InstanceOf("first")'.trace = InstanceOf("alone")'.trace

C26_InterleavedRunsAgreeWithRunAlone == [][C26_Step]_vars

\* Both runs have returned, each after steps of the other were taken while
\* it was parked, and the first one showed its steps.
C26_Witness ==
    /\ running \in {"first", "second"}
    /\ InstanceOf("first").pc = "done"
    /\ InstanceOf("second").pc = "done"
    /\ InstanceOf("first").step >= 10
    /\ InstanceOf("second").step >= 10
    /\ InstanceOf("first").trace # <<>>
    /\ InstanceOf("first").tokens # InstanceOf("second").tokens

(***************************************************************************)
(* C27.  A parse run starts with the stack [$, Program], Program on top,   *)
(* and the cursor at 0; in every state the stack is non-empty, $ is its    *)
(* bottom element and occurs nowhere else, and every other element is a    *)
(* terminal or a non-terminal of the grammar, never epsilon; so no run     *)
(* ends in the `Unknown symbol on stack' branch or falls out of the loop.  *)
(***************************************************************************)
C27_StackWellFormed ==
    pc # "off" =>
        /\ step = 0 => (stack = <<"$", "Program">> /\ pos = 0)
        /\ stack # <<>>
        /\ stack[1] = "$"
        /\ \A i \in 2..Len(stack) :
               /\ stack[i] \notin {"$", EPSILON}
               /\ is_terminal(stack[i]) \/ is_non_terminal(grammar, stack[i])
        /\ \A k \in DOMAIN errors : errors[k].kind # "UnknownSymbol"
        /\ (pc = "done" /\ result = "False") => errors # <<>>

(***************************************************************************)
(* C28.  A match step, taken when the top of the stack is a terminal equal *)
(* to the current input terminal, removes exactly the top element of the   *)
(* stack, leaves every element below it as it was, moves the cursor        *)
(* forward by exactly one and adds no error.                               *)
(***************************************************************************)
C28_Step ==
    (step' # step /\ MatchStep) =>
        /\ Len(stack') = Len(stack) - 1
        /\ \A i \in 1..Len(stack') : stack'[i] = stack[i]
        /\ pos' = pos + 1
        /\ errors' = errors

C28_MatchStepFrame == [][C28_Step]_vars

\* The last step shown is a match: the stack is the one the row shows less
\* its top, elements are left below the matched one, and no error is held.
C28_Witness ==
    /\ pc = "parse"
    /\ trace # <<>>
    /\ trace[Len(trace)].action.kind = "match"
    /\ trace[Len(trace)].step = step
    /\ stack = Pop(Reverse(trace[Len(trace)].stack))
    /\ Len(stack) >= 3
    /\ pos >= 2
    /\ errors = <<>>

(***************************************************************************)
(* C29.  An apply step finds a single candidate A -> gamma in the cell of  *)
(* the non-terminal A on top and the current input terminal; it replaces   *)
(* A by the symbols of gamma with gamma's leftmost symbol on top and       *)
(* leaves the elements below A as they were; when gamma is [epsilon] it    *)
(* only pops A; the cursor stays where it is in both cases.                *)
(***************************************************************************)
ApplyStep ==
    /\ pc = "parse"
    /\ stack # <<>>
    /\ top # "$"
    /\ top \notin TERMINALS
    /\ top \in Keys(grammar)
    /\ TableGet(table, top, terminal) # {}

C29_Step ==
    (step' # step /\ ApplyStep) =>
        \E entry \in TableGet(table, top, terminal) :
            LET gamma == entry.prod
                below == Len(stack) - 1
            IN  /\ TableGet(table, top, terminal) = {entry}
                /\ \A i \in 1..below : stack'[i] = stack[i]
                /\ gamma # <<EPSILON>> =>
                       /\ Len(stack') = below + Len(gamma)
                       /\ \A j \in 1..Len(gamma) :
                              stack'[Len(stack') - j + 1] = gamma[j]
                /\ gamma = <<EPSILON>> => Len(stack') = below
                /\ pos' = pos

C29_ApplyStepFrame == [][C29_Step]_vars

\* The last step shown is the apply of StatementList' -> epsilon, which has
\* only popped the non-terminal; before it rule 6 was applied, and the next
\* row shows its four symbols on the stack with `if' on top.
C29_Witness ==
    /\ trace # <<>>
    /\ LET last == trace[Len(trace)]
       IN  /\ last.action.kind = "apply"
           /\ last.action.prod = <<EPSILON>>
           /\ last.step = step
           /\ stack = Pop(Reverse(last.stack))
           /\ pos = Len(tokens) - 1
    /\ \E k \in 1..(Len(trace) - 1) :
           /\ trace[k].action.kind = "apply"
           /\ trace[k].action.rule_num = 6
           /\ trace[k].input = trace[k + 1].input
           /\ SubSeq(trace[k + 1].stack, 1, 4)
                  = <<"if", "Condition", "then", "Assignment">>
           /\ SubSeq(trace[k + 1].stack, 5, Len(trace[k + 1].stack))
                  = SubSeq(trace[k].stack, 2, Len(trace[k].stack))

(***************************************************************************)
(* C30.  The table construction rule: the production A -> alpha is         *)
(* recorded at cell (A, t) for every terminal t of FIRST(alpha) other than *)
(* epsilon, and for every t of FOLLOW(A) when epsilon is in FIRST(alpha)   *)
(* ([epsilon] has FIRST {epsilon}); no cell holds a production that        *)
(* neither case licenses, and epsilon is the terminal of no cell.          *)
(***************************************************************************)
\* The productions recorded in a cell of the table: the cell holds them
\* one after the other with " | " in between.
JoinedProductions(body) ==
    { SubSeq(body, a, b) :
        <<a, b>> \in { ab \in (DOMAIN body) \X (DOMAIN body) :
                         /\ ab[1] <= ab[2]
                         /\ ab[1] = 1 \/ body[ab[1] - 1] = " | "
                         /\ ab[2] = Len(body) \/ body[ab[2] + 1] = " | "
                         /\ \A k \in ab[1]..ab[2] : body[k] # " | " } }

\* The production A -> alpha of g is licensed for the terminal t.
LicensedBy(g, A, alpha, t) ==
    \/ t \in FirstOfString(g, alpha)
    \/ /\ NullableString(g, alpha)
       /\ t \in FollowOf(g, Start(g))[A]

C30_TableConstructionRule ==
    ga_pc = "table_done" =>
        /\ \A A \in NonTerminalsOf(grammar_arg) :
               \A alpha \in AllProductions(grammar_arg, A) :
                   \A t \in TerminalsOf(grammar_arg) \cup {"$"} :
                       LicensedBy(grammar_arg, A, alpha, t) =>
                           /\ <<A, t>> \in DOMAIN ga_table
                           /\ alpha \in JoinedProductions(ga_table[<<A, t>>])
        /\ \A key \in DOMAIN ga_table :
               /\ key[2] # EPSILON
               /\ \A alpha \in JoinedProductions(ga_table[key]) :
                      /\ alpha \in AllProductions(grammar_arg, key[1])
                      /\ LicensedBy(grammar_arg, key[1], alpha, key[2])

(***************************************************************************)
(* compute_first_of_string called on its own (table_parser.py, lines       *)
(* 205-224, and grammar_analysis.py, lines 383-402): with the FIRST sets   *)
(* the module computed for a grammar, and a string of symbols of that      *)
(* grammar, as compute_follow_sets and build_parsing_table call it with    *)
(* the bodies of the productions and what follows a non-terminal in them.  *)
(* Epsilon is no symbol of these strings: it stands alone, as the body of  *)
(* the empty production, which the callers handle without a call.          *)
(***************************************************************************)
\* The longest string that is not taken from a production.
MaxString == 2

StringsOver(symbols) ==
    UNION { [1..n -> symbols] : n \in 0..MaxString }

\* The suffixes of the production bodies of g other than [epsilon].
SuffixesOfBodies(bodies) ==
    UNION { { SubSeq(body, k, Len(body)) : k \in 1..(Len(body) + 1) }
            : body \in bodies \ {<<EPSILON>>} }

\* The grammars grammar_analysis.compute_first_of_string is followed for.
StringGrammars == NamedGrammars

StringCall(module, symbols, first) ==
    [module |-> module, symbols |-> symbols, first |-> first,
     returned |-> FALSE, result |-> {}]

StringCalls ==
    UNION { LET first == Loaded[g].FIRST_SETS
                bodies == { Items(g)[k].prod : k \in DOMAIN Items(g) }
            IN  { StringCall("table_parser", symbols, first) :
                    symbols \in StringsOver(Keys(g) \cup (TERMINALS \ {EPSILON}))
                                \cup SuffixesOfBodies(bodies) }
            : g \in Grammars }
    \cup
    UNION { LET first == ga_compute_first_sets(g)
                bodies == UNION { AllProductions(g, A) : A \in NonTerminalsOf(g) }
            IN  { StringCall("grammar_analysis", symbols, first) :
                    symbols \in StringsOver(SymbolsOf(g) \ {EPSILON})
                                \cup SuffixesOfBodies(bodies) }
            : g \in StringGrammars }

StringInit ==
    /\ ParserOff
    /\ AnalysisOff
    /\ loading = [fn |-> "off"]
    /\ ast = NotParsed
    /\ string_call \in StringCalls

\* table_parser.compute_first_of_string returns.
FirstOfString_table_parser ==
    /\ string_call.module = "table_parser"
    /\ ~ string_call.returned
    /\ string_call' =
          [string_call EXCEPT
             !.returned = TRUE,
             !.result = compute_first_of_string(string_call.symbols,
                                                string_call.first)]
    /\ UNCHANGED <<parser_vars, ga_vars, loading, ast>>

\* grammar_analysis.compute_first_of_string returns.
FirstOfString_grammar_analysis ==
    /\ string_call.module = "grammar_analysis"
    /\ ~ string_call.returned
    /\ string_call' =
          [string_call EXCEPT
             !.returned = TRUE,
             !.result = ga_compute_first_of_string(string_call.symbols,
                                                   string_call.first)]
    /\ UNCHANGED <<parser_vars, ga_vars, loading, ast>>

StringNext ==
    \/ FirstOfString_table_parser
    \/ FirstOfString_grammar_analysis

StringSpec == StringInit /\ [][StringNext]_vars

(***************************************************************************)
(* C31.  FIRST of a string s_1 ... s_n is FIRST(s_i) without epsilon       *)
(* accumulated from the left up to and including the first s_i whose FIRST *)
(* set lacks epsilon, and holds epsilon if and only if every s_i has       *)
(* epsilon in its FIRST set: the empty string yields {epsilon}.            *)
(***************************************************************************)
\* The position of the first symbol of w whose FIRST set lacks epsilon,
\* Len(w) + 1 when there is none.
StopsAt(w, first) ==
    LET lacking == { i \in DOMAIN w : EPSILON \notin Get(first, w[i]) }
    IN  IF lacking = {} THEN Len(w) + 1
        ELSE CHOOSE i \in lacking : \A j \in lacking : i <= j

C31_FirstOfString ==
    (string_call.module # "off" /\ string_call.returned) =>
        LET w == string_call.symbols
            first == string_call.first
            last == StopsAt(w, first)
        IN  /\ string_call.result \ {EPSILON} =
                  UNION { Get(first, w[i]) \ {EPSILON}
                          : i \in { j \in DOMAIN w : j <= last } }
            /\ EPSILON \in string_call.result
                  <=> \A i \in DOMAIN w : EPSILON \in Get(first, w[i])

\* FIRST(OptionalElse if): the scan went past OptionalElse, which has
\* epsilon in its FIRST set, and stopped at `if'.
C31_Witness ==
    /\ string_call.module = "table_parser"
    /\ string_call.returned
    /\ string_call.symbols = <<"OptionalElse", "if">>
    /\ string_call.result = {"else", "if"}

(***************************************************************************)
(* Loading table_parser.py (lines 295-296): compute_first_sets and then    *)
(* compute_follow_sets run, one step per production visited by the loop    *)
(* over the productions, and one step for the test of `while changed' at   *)
(* the end of each pass.  The frame of the running function is in          *)
(* loading; FIRST_SETS and FOLLOW_SETS are assigned when it returns.       *)
(***************************************************************************)
Frame(fn, first, follow, chg, k) ==
    [fn |-> fn, first |-> first, follow |-> follow, changed |-> chg, k |-> k]

\* Lines 99-109 of compute_first_sets, at the first production of the
\* first pass.
LoadInit ==
    /\ AnalysisOff
    /\ grammar \in Grammars
    /\ FIRST_SETS = <<>>
    /\ FOLLOW_SETS = <<>>
    /\ tokens = <<>>
    /\ show_steps = FALSE
    /\ table = <<>>
    /\ stack = <<>>
    /\ pos = 0
    /\ errors = <<>>
    /\ step = 0
    /\ trace = <<>>
    /\ pc = "off"
    /\ result = "None"
    /\ running = "main"
    /\ parked = <<>>
    /\ string_call = [module |-> "off"]
    /\ ast = NotParsed
    /\ loading = Frame("compute_first_sets",
                       [s \in Keys(grammar) \cup TERMINALS |->
                           IF s \in TERMINALS THEN {s} ELSE {}],
                       <<>>, FALSE, 1)

LoadFixed ==
    UNCHANGED <<grammar, tokens, show_steps, table, stack, pos, errors, step,
                trace, pc, result, running, parked, ga_vars, string_call, ast>>

\* Lines 112-145: the body of the loop for one production.
FirstUpdate ==
    /\ loading.fn = "compute_first_sets"
    /\ loading.k <= Len(Items(grammar))
    /\ LET item == Items(grammar)[loading.k]
           first == FirstProduction(loading.first, item.nt, item.prod)
       IN  loading' = [loading EXCEPT
                         !.first = first,
                         !.changed = loading.changed \/ first # loading.first,
                         !.k = loading.k + 1]
    /\ UNCHANGED <<FIRST_SETS, FOLLOW_SETS>>
    /\ LoadFixed

\* Lines 107-108 and 147, 295, and lines 167-174 of compute_follow_sets:
\* another pass, or the return and the call of compute_follow_sets.
FirstPassEnd ==
    /\ loading.fn = "compute_first_sets"
    /\ loading.k > Len(Items(grammar))
    /\ IF loading.changed
       THEN /\ loading' = [loading EXCEPT !.changed = FALSE, !.k = 1]
            /\ UNCHANGED FIRST_SETS
       ELSE /\ FIRST_SETS' = loading.first
            /\ loading' = Frame("compute_follow_sets", loading.first,
                                [s \in Keys(grammar) |->
                                    IF s = "Program" THEN {"$"} ELSE {}],
                                FALSE, 1)
    /\ UNCHANGED FOLLOW_SETS
    /\ LoadFixed

\* Lines 177-200: the body of the loop for one production.
FollowUpdate ==
    /\ loading.fn = "compute_follow_sets"
    /\ loading.k <= Len(Items(grammar))
    /\ LET item == Items(grammar)[loading.k]
           follow == FollowProduction(grammar, loading.follow, loading.first,
                                      item.nt, item.prod)
       IN  loading' = [loading EXCEPT
                         !.follow = follow,
                         !.changed = loading.changed \/ follow # loading.follow,
                         !.k = loading.k + 1]
    /\ UNCHANGED <<FIRST_SETS, FOLLOW_SETS>>
    /\ LoadFixed

\* Lines 173-174 and 202, 296: another pass, or the return.
FollowPassEnd ==
    /\ loading.fn = "compute_follow_sets"
    /\ loading.k > Len(Items(grammar))
    /\ IF loading.changed
       THEN /\ loading' = [loading EXCEPT !.changed = FALSE, !.k = 1]
            /\ UNCHANGED FOLLOW_SETS
       ELSE /\ FOLLOW_SETS' = loading.follow
            /\ loading' = [loading EXCEPT !.fn = "loaded"]
    /\ UNCHANGED FIRST_SETS
    /\ LoadFixed

LoadNext ==
    \/ FirstUpdate
    \/ FirstPassEnd
    \/ FollowUpdate
    \/ FollowPassEnd

LoadSpec == LoadInit /\ [][LoadNext]_vars

(***************************************************************************)
(* C32.  The FIRST and FOLLOW sets only grow while they are computed:      *)
(* after every update in either fixed-point loop each set holds all it     *)
(* held before; and epsilon is in no FOLLOW set at any time.               *)
(***************************************************************************)
Grows(before, after) ==
    \A s \in DOMAIN before :
        s \in DOMAIN after /\ before[s] \subseteq after[s]

NoEpsilon(follow) == \A s \in DOMAIN follow : EPSILON \notin follow[s]

C32_Step ==
    /\ (loading.fn = "compute_first_sets" /\ loading'.fn = "compute_first_sets")
          => Grows(loading.first, loading'.first)
    /\ (loading.fn = "compute_follow_sets" /\ loading'.fn # "off")
          => /\ Grows(loading.follow, loading'.follow)
             /\ loading'.first = loading.first
             /\ NoEpsilon(loading.follow)
             /\ NoEpsilon(loading'.follow)
    /\ NoEpsilon(FOLLOW_SETS')

C32_SetsOnlyGrow == [][C32_Step]_vars

\* Both loops have returned for the built-in grammar: sets grew in more
\* than one pass, FIRST(StatementList') holds epsilon and FOLLOW(OptionalElse)
\* holds what FOLLOW(Statement) gave it.
C32_Witness ==
    /\ loading.fn = "loaded"
    /\ grammar = GRAMMAR
    /\ FIRST_SETS = loading.first
    /\ FOLLOW_SETS = loading.follow
    /\ FIRST_SETS["StatementList'"] = {"if", EPSILON}
    /\ FOLLOW_SETS["OptionalElse"] = {"if", "$"}
    /\ FOLLOW_SETS["IfStatement"] = {"else", "if", "$"}

(***************************************************************************)
(* C33.  The fixed-point loops of FIRST and FOLLOW end for every grammar:  *)
(* a pass that changes no set ends the loop, a pass that changes a set is  *)
(* followed by another one, and only finitely many passes change a set, so *)
(* both functions return.                                                  *)
(***************************************************************************)
\* Some set of the family is not what it was; a key that is new with the
\* empty set (a read of the defaultdict) changes no set.
SetChanged(before, after) ==
    \E s \in DOMAIN before \cup DOMAIN after : Get(after, s) # Get(before, s)

C33_Step ==
    /\ (ga_pc = "first_pass" /\ ga_pc' = "first_pass") =>
          (changed' <=> changed \/ SetChanged(ga_first, ga_first'))
    /\ (ga_pc = "first" /\ ga_pc' # "first") =>
          IF changed
          THEN ga_pc' = "first_pass" /\ ~ changed'
          ELSE ga_pc' = "first_done" /\ ga_first' = ga_first
    /\ (ga_pc = "follow_pass" /\ ga_pc' = "follow_pass") =>
          (changed' <=> changed \/ SetChanged(ga_follow, ga_follow'))
    /\ (ga_pc = "follow" /\ ga_pc' # "follow") =>
          IF changed
          THEN ga_pc' = "follow_pass" /\ ~ changed'
          ELSE ga_pc' = "follow_done" /\ ga_follow' = ga_follow

C33_FixedPointLoopsTerminate ==
    /\ [][C33_Step]_vars
    /\ (ga_pc = "first") ~> (ga_pc = "first_done")
    /\ (ga_pc = "follow") ~> (ga_pc = "follow_done")

\* Both loops have ended for the grammar with indirect left recursion
\* through three non-terminals, whose sets grow in several passes.
C33_Witness ==
    /\ ga_pc = "follow_done"
    /\ ~ changed
    /\ DictKeys(grammar_arg) = <<"A", "B", "C">>
    /\ Get(ga_first, "A") = {"if", "then", "else"}
    /\ Get(ga_first, "C") = {"if", "then", "else", EPSILON}
    /\ Get(ga_follow, "B") # {}

\* The lists of a list of lists, one after the other.
RECURSIVE Concat(_)
Concat(lists) ==
    IF lists = <<>> THEN <<>> ELSE Head(lists) \o Concat(Tail(lists))

\* What stands for a production of A_i once A_j is substituted: the
\* production, or one production for each alternative of A_j.
Replacement(prod, aj, alternatives) ==
    IF prod # <<>> /\ prod[1] = aj
    THEN [k \in DOMAIN alternatives |->
             LET body == AsString(alternatives[k]) \o Tail(prod)
             IN  IF body = <<>> THEN <<EPSILON>> ELSE body]
    ELSE <<prod>>

\* The grammar when the first j non-terminals are substituted in A_i.
RECURSIVE SubstitutedUpTo(_, _, _, _)
SubstitutedUpTo(g, keys, i, j) ==
    IF j = 0 THEN g
    ELSE LET before == SubstitutedUpTo(g, keys, i, j - 1)
             ai_prods == Item(before, keys[i])
         IN  SetItem(before, keys[i],
                 Concat([k \in DOMAIN ai_prods |->
                            Replacement(ai_prods[k], keys[j],
                                        Item(before, keys[j]))]))

\* A_j is substituted in A_i: a production of A_i begins with A_j when the
\* loop over the earlier non-terminals is at j.
UsedForSubstitution(g, keys, i, j) ==
    \E k \in DOMAIN Item(SubstitutedUpTo(g, keys, i, j - 1), keys[i]) :
        LET prod == Item(SubstitutedUpTo(g, keys, i, j - 1), keys[i])[k]
        IN  prod # <<>> /\ prod[1] = keys[j]

(***************************************************************************)
(* C34.  The indirect elimination takes the non-terminals in the order of  *)
(* their declaration.  At A_i, for each earlier A_j in increasing j, every *)
(* production of A_i that begins with A_j is replaced by one production    *)
(* for each alternative of A_j, the alternative followed by the suffix and *)
(* an epsilon alternative giving the suffix alone, the other productions   *)
(* of A_i staying in place; the direct elimination is applied to A_i after *)
(* all these substitutions; and every A_j that is substituted has, at that *)
(* moment, no production that begins with A_j.                             *)
(***************************************************************************)
C34_Step ==
    (/\ ga_pc = "eliminate"
     /\ ga_i <= Len(non_terminals)
     /\ ga_i' = ga_i + 1)
    => LET A      == non_terminals[ga_i]
           sub    == SubstitutedUpTo(new_grammar, non_terminals, ga_i, ga_i - 1)
           alphas == RecursiveAlternatives(A, Item(sub, A))
           betas  == OtherAlternatives(A, Item(sub, A))
           fresh  == A \o "'"
       IN  /\ non_terminals = DictKeys(grammar_arg)
           /\ IF alphas = <<>>
              THEN new_grammar' = sub
              ELSE /\ Item(new_grammar', A) =
                          [m \in DOMAIN betas |-> AsString(betas[m]) \o <<fresh>>]
                   /\ Item(new_grammar', fresh) =
                          [k \in DOMAIN alphas |-> Tail(alphas[k]) \o <<fresh>>]
                          \o << <<EPSILON>> >>
                   /\ \A n \in DOMAIN sub :
                          sub[n].nt \notin {A, fresh}
                          => new_grammar'[n] = sub[n]
           /\ \A j \in 1..(ga_i - 1) :
                  UsedForSubstitution(new_grammar, non_terminals, ga_i, j)
                  => ~ has_direct_left_recursion(non_terminals[j],
                         Item(SubstitutedUpTo(new_grammar, non_terminals,
                                              ga_i, j - 1),
                              non_terminals[j]))

C34_IndirectElimination == [][C34_Step]_vars

\* The alternatives of productions that do not begin with prefix, in order.
NotStartingWith(productions, prefix) ==
    SelectSeq(productions, LAMBDA prod : ~ StartsWith(prod, prefix))

\* The alternatives of A a factoring step with the chosen prefix leaves as
\* they are, in their order.
OtherAlternativesKept ==
    (/\ ga_pc = "factor"
     /\ ga_i <= Len(non_terminals)
     /\ ga_i' = ga_i + 1
     /\ FirstGroup(Item(new_grammar, non_terminals[ga_i])) # <<>>)
    => LET A      == non_terminals[ga_i]
           prefix == LongestCommonPrefix(FirstGroup(Item(new_grammar, A)))
       IN  NotStartingWith(Item(new_grammar', A), prefix) =
               NotStartingWith(Item(new_grammar, A), prefix)

(***************************************************************************)
(* C35.  A left-factoring step on the non-terminal A leaves every          *)
(* alternative of A that does not begin with the chosen prefix as it was,  *)
(* these alternatives in the order they had, and leaves the alternatives   *)
(* of every other non-terminal the grammar has before the step as they     *)
(* were.                                                                   *)
(***************************************************************************)
C35_Step ==
    /\ OtherAlternativesKept
    /\ (/\ ga_pc = "factor"
        /\ ga_i <= Len(non_terminals)
        /\ ga_i' = ga_i + 1)
       => \A n \in DOMAIN new_grammar :
              new_grammar[n].nt # non_terminals[ga_i]
              => /\ n \in DOMAIN new_grammar'
                 /\ new_grammar'[n] = new_grammar[n]

C35_FactoringStepFrame == [][C35_Step]_vars

(***************************************************************************)
(* left_factor, alone or after the elimination of left recursion.  A call  *)
(* of left_factor that has begun runs on: the interpreter takes the next   *)
(* step of the loop as long as there is one.                               *)
(***************************************************************************)
FactorRuns ==
    \/ FactorNextPass
    \/ FactorStep
    \/ FactorReturn

FactorNext ==
    \/ EliminateCall
    \/ EliminateStep
    \/ EliminateReturn
    \/ FactorCall
    \/ FactorRuns

FactorFairSpec == AnalysisInit /\ [][FactorNext]_vars /\ WF_vars(FactorRuns)

\* No alternative list of g has two alternatives with a common leading
\* symbol.
NoFactorableGroup(g) ==
    \A i \in DOMAIN g : FirstGroup(g[i].productions) = <<>>

(***************************************************************************)
(* C36.  Left factoring terminates: after finitely many factoring steps    *)
(* the loop of left_factor has made a full pass, over every non-terminal   *)
(* of the grammar, that found no group to factor, and the function         *)
(* returns.                                                                *)
(***************************************************************************)
C36_LeftFactoringTerminates ==
    /\ [][(ga_pc = "factor" /\ ga_pc' = "factored")
            => /\ ~ changed
               /\ ga_i > Len(non_terminals)
               /\ non_terminals = DictKeys(new_grammar)
               /\ NoFactorableGroup(new_grammar)
               /\ new_grammar' = new_grammar]_vars
    /\ (ga_pc = "factor") ~> (ga_pc = "factored")

\* left_factor has returned after a pass that factored the first group of
\* A, a pass that factored the second and a pass that changed nothing.
C36_Witness ==
    /\ ga_pc = "factored"
    /\ grammar_arg = << Entry("A", << <<"if", "then">>, <<"else", "is">>,
                                      <<"else", "then">>, <<"if", "else">> >>) >>
    /\ new_grammar = << Entry("A", << <<"else", "A'A'">>, <<"if", "A'">> >>),
                        Entry("A'", << <<"then">>, <<"else">> >>),
                        Entry("A'A'", << <<"is">>, <<"then">> >>) >>
    /\ NoFactorableGroup(new_grammar)

(***************************************************************************)
(* C37.  For ORIGINAL_GRAMMAR the pipeline of analyze_grammar finds        *)
(* nothing to do: eliminate_indirect_left_recursion returns the grammar    *)
(* as it is, find_common_prefix returns the empty prefix for each of its   *)
(* non-terminals, and left_factor, called with what the elimination        *)
(* returned, keeps the grammar as it is until it returns it.               *)
(***************************************************************************)
C37_OriginalGrammarIsKept ==
    /\ (ga_pc \in {"eliminate", "no_lr"} /\ grammar_arg = ORIGINAL_GRAMMAR)
       => new_grammar = ORIGINAL_GRAMMAR
    /\ (ga_pc = "no_lr" /\ grammar_arg = ORIGINAL_GRAMMAR)
       => \A i \in DOMAIN new_grammar :
              find_common_prefix(new_grammar[i].productions) = <<>>
    /\ (ga_pc \in {"factor", "factored"} /\ grammar_arg = ORIGINAL_GRAMMAR)
       => new_grammar = ORIGINAL_GRAMMAR

(***************************************************************************)
(* C38.  For the built-in grammar, whenever `$' is on top of the stack the *)
(* current input terminal is `$': the step that uncovers `$' applies       *)
(* StatementList' -> epsilon with the lookahead `$' and consumes no token, *)
(* so no run reports a token found at the end.                             *)
(***************************************************************************)
C38_Step ==
    (/\ grammar = GRAMMAR
     /\ Running
     /\ top # "$"
     /\ stack' # <<>>
     /\ stack'[Len(stack')] = "$")
    => /\ top = "StatementList'"
       /\ terminal = "$"
       /\ stack' = Pop(stack)
       /\ pos' = pos

C38_NoTrailingInput ==
    /\ [](grammar = GRAMMAR =>
            /\ (stack # <<>> /\ top = "$") => terminal = "$"
            /\ \A k \in DOMAIN errors : errors[k].kind # "TrailingInput")
    /\ [][C38_Step]_vars

\* Two statements are parsed, the second with an else part: `$' is on top
\* of the stack and the end of the input is the current token.
C38_Witness ==
    /\ grammar = GRAMMAR
    /\ pc = "parse"
    /\ stack = <<"$">>
    /\ terminal = "$"
    /\ pos = Len(tokens) - 1
    /\ pos >= 14
    /\ errors = <<>>

(***************************************************************************)
(* The recursive-descent parser (parser.py, lines 72-196).  The state of   *)
(* a run is the position and the exception raised, "None" if none; once    *)
(* an exception is raised nothing more is done.                            *)
(***************************************************************************)
Raise(st, exception) == [st EXCEPT !.raised = exception]

\* Lines 90-101; self.tokens[self.pos] raises IndexError past the end.
Parser_consume(toks, st, expected_type) ==
    IF st.raised # "None" THEN st
    ELSE IF st.pos >= Len(toks) THEN Raise(st, "IndexError")
    ELSE IF toks[st.pos + 1].type # expected_type THEN Raise(st, "SyntaxError")
    ELSE [st EXCEPT !.pos = @ + 1]

\* The words int() takes for a number: the superscript two is not one.
IntLiterals == {"90"}

\* Lines 184-189.
Parser_parse_value(toks, st) == Parser_consume(toks, st, "LETTER")

\* Lines 174-182.
Parser_parse_assignment(toks, st) ==
    Parser_parse_value(toks,
        Parser_consume(toks, Parser_consume(toks, st, "IDENTIFIER"), "IS"))

\* Lines 164-172; int(num_token.value) raises ValueError.
Parser_parse_condition(toks, st) ==
    LET after == Parser_consume(toks,
                     Parser_consume(toks,
                         Parser_consume(toks, st, "IDENTIFIER"), "GTE"),
                     "NUMBER")
    IN  IF after.raised # "None" THEN after
        ELSE IF toks[after.pos].value \notin IntLiterals
        THEN Raise(after, "ValueError")
        ELSE after

\* Lines 139-148.
Parser_parse_if_statement(toks, st) ==
    Parser_parse_assignment(toks,
        Parser_consume(toks,
            Parser_parse_condition(toks, Parser_consume(toks, st, "IF")),
            "THEN"))

\* Lines 150-162.
Parser_parse_optional_else(toks, st) ==
    IF st.raised # "None" THEN st
    ELSE IF st.pos >= Len(toks) THEN Raise(st, "IndexError")
    ELSE IF toks[st.pos + 1].type = "ELSE"
    THEN Parser_parse_assignment(toks, Parser_consume(toks, st, "ELSE"))
    ELSE st

\* Lines 124-137.
Parser_parse_statement(toks, st) ==
    IF st.raised # "None" THEN st
    ELSE IF st.pos >= Len(toks) THEN Raise(st, "IndexError")
    ELSE IF toks[st.pos + 1].type = "IF"
    THEN Parser_parse_optional_else(toks, Parser_parse_if_statement(toks, st))
    ELSE Raise(st, "SyntaxError")

\* Lines 110-122: the while loop, from the state st on.
RECURSIVE Parser_parse_statement_list(_, _)
Parser_parse_statement_list(toks, st) ==
    IF st.raised # "None" THEN st
    ELSE IF st.pos >= Len(toks) THEN Raise(st, "IndexError")
    ELSE IF toks[st.pos + 1].type = "EOF" THEN st
    ELSE LET after == Parser_parse_statement(toks, st)
         IN  IF Evaluated(after)
             THEN Parser_parse_statement_list(toks, after)
             ELSE after

\* Parser(tokens).parse(), lines 76-78 and 104-108.
Parser_parse(toks) ==
    Parser_parse_statement_list(toks,
        [called |-> TRUE, raised |-> "None", pos |-> 0])

(***************************************************************************)
(* compile_with_validation (main.py, lines 18-84): the source is           *)
(* tokenized, the table-driven parser is run on the tokens with the steps  *)
(* shown, and when it accepts the source is tokenized again and            *)
(* Parser.parse is called on the tokens, outside any try.                  *)
(***************************************************************************)
\* Sources given to compile_with_validation.
CompileSources ==
    ScenarioSources \cup
    { <<"if", "score", ">=", "90", "then", "grade", "is", "A",
        "else", "grade", "is", "A", "if", "score", ">=", "90", "then",
        "grade", "is", "A">>,
      <<"if", "score", ">=", "²", "then", "grade", "is", "A">> }

\* Lines 35-53.
CompileInit ==
    /\ AnalysisOff
    /\ CallsOff
    /\ grammar \in Grammars
    /\ FIRST_SETS = Loaded[grammar].FIRST_SETS
    /\ FOLLOW_SETS = Loaded[grammar].FOLLOW_SETS
    /\ tokens \in Loaded[grammar].streams
                  \cup { tokenize(source) : source \in CompileSources }
    /\ show_steps = TRUE
    /\ pos = 0
    /\ table \in Loaded[grammar].tables
    /\ stack = <<"$", "Program">>
    /\ errors = <<>>
    /\ step = 0
    /\ trace = <<>>
    /\ pc = "parse"
    /\ result = "None"
    /\ running = "main"
    /\ parked = <<>>

\* Lines 55-75: is_valid is True, the tokens are made again and parsed.
CodeGeneration ==
    /\ pc = "done"
    /\ result = "True"
    /\ ~ ast.called
    /\ ast' = Parser_parse(tokens)
    /\ UNCHANGED <<parser_vars, ga_vars, string_call, loading>>

CompileNext == Next \/ CodeGeneration

CompileSpec == CompileInit /\ [][CompileNext]_vars

(***************************************************************************)
(* C39.  When TableDrivenParser.parse accepts a token stream of the lexer, *)
(* Parser.parse on the same stream returns: it raises no exception,        *)
(* does not read past the last token, and stops at the EOF token with      *)
(* every token before it consumed.                                         *)
(***************************************************************************)
C39_AcceptedStreamsParse ==
    (grammar = GRAMMAR /\ ast.called)
    => /\ ast.raised = "None"
       /\ ast.pos = Len(tokens) - 1
       /\ tokens[ast.pos + 1].type = "EOF"

(***************************************************************************)
(* C40.  A parse run is deterministic: whatever the order in which the     *)
(* elements of the FIRST and FOLLOW sets are visited while the table is    *)
(* built, a non-terminal on top of the stack with the current terminal     *)
(* leads to the same step, the application of the same production or the   *)
(* same error, whose message lists the same expected terminals in the      *)
(* same order; so the result, the sequence of actions and the diagnostic   *)
(* of the run on a token stream are the same in every run.                 *)
(***************************************************************************)
C40_RunIsDeterministic ==
    (/\ Running
     /\ top # "$"
     /\ ~ is_terminal(top)
     /\ is_non_terminal(grammar, top))
    => \A other \in Loaded[grammar].tables :
           /\ TableGet(other, top, terminal) = TableGet(table, top, terminal)
           /\ TableGet(table, top, terminal) = {}
              => Expected(other, top) = Expected(table, top)

=============================================================================
